---------------------------- MODULE Spec2Model ----------------------------
(***************************************************************************)
(* pydanticforge: the type lattice (inference/types.py, lattice.py,        *)
(* infer.py), drift detection (monitor/drift.py), the directory monitor    *)
(* (monitor/watcher.py) and the end of the monitor command (cli.py), the   *)
(* semantic diff of model files (diff/semantic.py), and the state file and *)
(* JSON Schema conversions (state.py, json_schema.py).                     *)
(*                                                                         *)
(* Python str values are sequences of code points, so that sorted() and    *)
(* string formatting are computed as Python computes them.  A TypeNode is  *)
(* a record tagged by "kind"; an ObjectType's sorted (name, FieldInfo)     *)
(* tuple is the function name -> FieldInfo (from_mapping always sorts, so  *)
(* the tuple is determined by the mapping).                                *)
(*                                                                         *)
(* simplify_union sorts a Python set with a key that does not separate     *)
(* objects of the same field names.  sorted() is stable, so tied options   *)
(* keep the set's iteration order, which depends on the hash seed and on   *)
(* insertion order.  join_types and simplify_union are therefore sets of   *)
(* outcomes: every order of the tied options is one.                       *)
(***************************************************************************)
EXTENDS Integers, Sequences, FiniteSets

VARIABLES
    strict_numbers,   \* the strict_numbers flag of the run
    left, right,      \* operands of join_types
    third,            \* a third operand, for three-way joins
    out,              \* result of the last join_types(left, right), or None
    root,             \* TypeInferer._root of each inferer
    seen,             \* samples each inferer has observed, in order
    expected, observed, \* operands of detect_drift
    events,           \* result of the last detect_drift(expected, observed)
    files,            \* payloads of the directory's files, in sorted path order
    autopatch,        \* monitor_directory_once's autopatch flag
    expected_root,    \* monitor_directory_once's running expected root
    file_idx,         \* position of the file loop
    sample_idx,       \* position of the sample loop within the file
    pc,               \* position within monitor_directory_once
    cur_observed,     \* infer_type(sample) of the sample being processed
    file_events,      \* events of the current file so far
    drifts,           \* FileDrift list
    files_scanned,    \* counter of files read
    report,           \* the returned MonitorReport, or None
    prev_root,        \* history: the expected root detect_drift last read
    sample_events,    \* detect_drift's return value for the current sample
    hit_files,        \* history: the files a sample of which gave a drift event
    rerun,            \* whether this run was given the root an earlier run returned
    fail_on,          \* the monitor command's --fail-on
    monitor_payload,  \* _monitor_report_payload(report), or None
    exit_code,        \* the monitor command's return value, or None
    old_file, new_file,  \* the module sources diff_models is given
    old, new,         \* parse_pydantic_models of each, or None
    entries,          \* semantic_diff(old, new) once it has returned
    state_root,       \* the root handed to the state file and the JSON Schema export
    state_payload,    \* schema_state_payload(state_root), or None
    loaded,           \* root_from_schema_state_payload(state_payload), or None
    schema,           \* to_json_schema(state_root), or None
    imported          \* from_json_schema(schema), or None

latticeVars == << left, right, third, out >>
infererVars == << root, seen >>
driftVars == << expected, observed, events >>
monitorVars == << files, autopatch, expected_root, file_idx, sample_idx, pc,
                  cur_observed, file_events, drifts, files_scanned, report,
                  prev_root, sample_events, hit_files, rerun, fail_on, monitor_payload,
                  exit_code >>
cliVars == << fail_on, monitor_payload, exit_code >>
diffVars == << old_file, new_file, old, new, entries >>
codecVars == << state_root, state_payload, loaded, schema, imported >>
toolVars == << diffVars, codecVars >>
vars == << strict_numbers, latticeVars, infererVars, driftVars, monitorVars, toolVars >>

None == [kind |-> "NoneValue"]

\* a call's return value, once the call has returned
Returned(value) == [kind |-> "Returned", value |-> value]

-----------------------------------------------------------------------------
(* Bounds *)

MaxWeight == 5      \* heaviest join result fed back as an operand
MaxObserved == 3    \* samples one TypeInferer observes
MaxFiles == 2       \* files in the monitored directory

-----------------------------------------------------------------------------
(* Python strings *)

s_Any == << 65, 110, 121 >>
s_None == << 78, 111, 110, 101 >>
s_bool == << 98, 111, 111, 108 >>
s_int == << 105, 110, 116 >>
s_float == << 102, 108, 111, 97, 116 >>
s_str == << 115, 116, 114 >>
s_datetime == << 100, 97, 116, 101, 116, 105, 109, 101 >>
s_list_open == << 108, 105, 115, 116, 91 >>
s_close_bracket == << 93 >>
s_object_open == << 111, 98, 106, 101, 99, 116, 60 >>
s_gt == << 62 >>
s_comma == << 44 >>
s_bar == << 32, 124, 32 >>
s_dollar == << 36 >>
s_dot == << 46 >>
s_brackets == << 91, 93 >>
s_missing == << 60, 109, 105, 115, 115, 105, 110, 103, 62 >>
s_absent == << 60, 97, 98, 115, 101, 110, 116, 62 >>
s_True == << 84, 114, 117, 101 >>
s_False == << 70, 97, 108, 115, 101 >>
s_quote == << 39 >>
s_open_bracket == << 91 >>
s_comma_space == << 44, 32 >>
s_open_brace == << 123 >>
s_close_brace == << 125 >>
s_colon_space == << 58, 32 >>
s_ellipsis == << 46, 46, 46 >>
s_space == << 32 >>
s_typing_dot == << 116, 121, 112, 105, 110, 103, 46 >>
s_pipe == << 124 >>
s_Model_removed == << 77, 111, 100, 101, 108, 32, 114, 101, 109, 111, 118, 101, 100 >>
s_Model_added == << 77, 111, 100, 101, 108, 32, 97, 100, 100, 101, 100 >>
s_Field_removed == << 70, 105, 101, 108, 100, 32, 114, 101, 109, 111, 118, 101, 100 >>
s_New == << 78, 101, 119, 32 >>
s_field == << 32, 102, 105, 101, 108, 100 >>
s_required_to_optional == << 70, 105, 101, 108, 100, 32, 99, 104, 97, 110, 103, 101, 100, 32, 102, 114, 111, 109, 32, 114, 101, 113, 117, 105, 114, 101, 100, 32, 116, 111, 32, 111, 112, 116, 105, 111, 110, 97, 108 >>
s_optional_to_required == << 70, 105, 101, 108, 100, 32, 99, 104, 97, 110, 103, 101, 100, 32, 102, 114, 111, 109, 32, 111, 112, 116, 105, 111, 110, 97, 108, 32, 116, 111, 32, 114, 101, 113, 117, 105, 114, 101, 100 >>
s_Field_changed == << 70, 105, 101, 108, 100, 32, 99, 104, 97, 110, 103, 101, 100, 32, 102, 114, 111, 109, 32 >>
s_Type == << 84, 121, 112, 101, 32 >>
s_arrow == << 32, 45, 62, 32 >>

\* The code points of the str values the samples use (field names and texts).
Chars(s) ==
    CASE s = "id" -> << 105, 100 >>
      [] s = "name" -> << 110, 97, 109, 101 >>
      [] s = "extra" -> << 101, 120, 116, 114, 97 >>
      [] s = "s" -> << 115 >>
      [] s = "a" -> << 97 >>
      [] s = "int" -> << 105, 110, 116 >>
      [] s = "str" -> << 115, 116, 114 >>
      [] s = "None" -> << 78, 111, 110, 101 >>
      [] s = "list" -> << 108, 105, 115, 116 >>
      [] s = "dict" -> << 100, 105, 99, 116 >>
      [] s = "typing" -> << 116, 121, 112, 105, 110, 103 >>
      [] s = "Optional" -> << 79, 112, 116, 105, 111, 110, 97, 108 >>
      [] s = "User" -> << 85, 115, 101, 114 >>
      [] s = "Payload" -> << 80, 97, 121, 108, 111, 97, 100 >>
      [] s = "Account" -> << 65, 99, 99, 111, 117, 110, 116 >>
      [] s = "Helper" -> << 72, 101, 108, 112, 101, 114 >>
      [] s = "nickname" -> << 110, 105, 99, 107, 110, 97, 109, 101 >>
      [] s = "email" -> << 101, 109, 97, 105, 108 >>
      [] s = "BaseModel" -> << 66, 97, 115, 101, 77, 111, 100, 101, 108 >>
      [] s = "RootModel" -> << 82, 111, 111, 116, 77, 111, 100, 101, 108 >>
      [] s = "pydantic" -> << 112, 121, 100, 97, 110, 116, 105, 99 >>
      [] s = "Field" -> << 70, 105, 101, 108, 100 >>
      [] s = "required" -> << 114, 101, 113, 117, 105, 114, 101, 100 >>
      [] s = "optional" -> << 111, 112, 116, 105, 111, 110, 97, 108 >>
      [] s = "same" -> << 115, 97, 109, 101 >>
      [] s = "widened" -> << 119, 105, 100, 101, 110, 101, 100 >>
      [] s = "narrowed" -> << 110, 97, 114, 114, 111, 119, 101, 100 >>
      [] s = "changed" -> << 99, 104, 97, 110, 103, 101, 100 >>
      [] s = "2024-01-01T00:00:00Z" ->
             << 50, 48, 50, 52, 45, 48, 49, 45, 48, 49, 84, 48, 48, 58, 48, 48,
                58, 48, 48, 90 >>

\* Python's str ordering: by code point, a proper prefix first.
RECURSIVE StrLess(_, _)
StrLess(s, t) ==
    IF t = << >> THEN FALSE
    ELSE IF s = << >> THEN TRUE
    ELSE IF Head(s) # Head(t) THEN Head(s) < Head(t)
    ELSE StrLess(Tail(s), Tail(t))

StrLE(s, t) == s = t \/ StrLess(s, t)

\* sorted(S) for a set S of distinct str values.
RECURSIVE SortedStrs(_)
SortedStrs(S) ==
    IF S = {} THEN << >>
    ELSE LET m == CHOOSE x \in S : \A y \in S : StrLE(x, y)
         IN << m >> \o SortedStrs(S \ {m})

\* sorted(seq) for a list of str values (duplicates kept).
RECURSIVE SortedList(_)
SortedList(seq) ==
    IF seq = << >> THEN << >>
    ELSE LET i == CHOOSE k \in 1..Len(seq) :
                     \A j \in 1..Len(seq) : StrLE(seq[k], seq[j])
             rest == [j \in 1..(Len(seq) - 1) |-> IF j < i THEN seq[j] ELSE seq[j + 1]]
         IN << seq[i] >> \o SortedList(rest)

\* sep.join(parts)
RECURSIVE Join(_, _)
Join(sep, parts) ==
    IF parts = << >> THEN << >>
    ELSE IF Len(parts) = 1 THEN parts[1]
    ELSE parts[1] \o sep \o Join(sep, Tail(parts))

\* sorted(names) for a set of field names.
SortedNames(names) ==
    LET sorted == SortedStrs({Chars(n) : n \in names})
    IN [i \in 1..Len(sorted) |-> CHOOSE n \in names : Chars(n) = sorted[i]]

Range(seq) == {seq[i] : i \in 1..Len(seq)}

RECURSIVE Concat(_)
\* the lists of a list of lists, one after the other
Concat(lists) == IF lists = << >> THEN << >> ELSE Head(lists) \o Concat(Tail(lists))

-----------------------------------------------------------------------------
(* inference/types.py *)

ANY == [kind |-> "Any"]
NULL == [kind |-> "Null"]
BOOL == [kind |-> "Bool"]
INT == [kind |-> "Int"]
FLOAT == [kind |-> "Float"]
STR == [kind |-> "Str"]
DATETIME == [kind |-> "DateTime"]

ArrayType(item_type) == [kind |-> "Array", item_type |-> item_type]

FieldInfo(type_node, required_count, sample_count, examples) ==
    [type_node |-> type_node, required_count |-> required_count,
     sample_count |-> sample_count, examples |-> examples]

required(field) == field.required_count = field.sample_count

\* ObjectType.from_mapping
ObjectType(mapping, sample_count) ==
    [kind |-> "Object", fields |-> mapping, sample_count |-> sample_count]

UnionType(options) == [kind |-> "Union", options |-> options]

RECURSIVE type_name(_)
type_name(node) ==
    CASE node.kind = "Any" -> s_Any
      [] node.kind = "Null" -> s_None
      [] node.kind = "Bool" -> s_bool
      [] node.kind = "Int" -> s_int
      [] node.kind = "Float" -> s_float
      [] node.kind = "Str" -> s_str
      [] node.kind = "DateTime" -> s_datetime
      [] node.kind = "Array" ->
             s_list_open \o type_name(node.item_type) \o s_close_bracket
      [] node.kind = "Object" ->
             LET names == SortedNames(DOMAIN node.fields)
             IN s_object_open
                  \o Join(s_comma, [i \in 1..Len(names) |-> Chars(names[i])])
                  \o s_gt
      [] node.kind = "Union" ->
             Join(s_bar,
                  SortedList([i \in 1..Len(node.options) |-> type_name(node.options[i])]))

type_sort_key(node) == type_name(node)

\* flatten_union_options keeping a Union operand as one option
flatten_union_options_shallow(nodes) == nodes

RECURSIVE flatten_union_options(_)
flatten_union_options(nodes) ==
    IF nodes = << >> THEN << >>
    ELSE (IF Head(nodes).kind = "Union"
          THEN flatten_union_options(Head(nodes).options)
          ELSE << Head(nodes) >>)
         \o flatten_union_options(Tail(nodes))

\* The weight of a type: its nodes, plus the samples its objects count.
RECURSIVE Weight(_)
RECURSIVE WeightSum(_)
WeightSum(seq) == IF seq = << >> THEN 0 ELSE Weight(Head(seq)) + WeightSum(Tail(seq))
Weight(node) ==
    CASE node.kind = "Array" -> 1 + Weight(node.item_type)
      [] node.kind = "Object" ->
             LET names == SortedNames(DOMAIN node.fields)
             IN 1 + node.sample_count
                  + WeightSum([i \in 1..Len(names) |-> node.fields[names[i]].type_node])
      [] node.kind = "Union" -> 1 + WeightSum(node.options)
      [] OTHER -> 1

-----------------------------------------------------------------------------
(* inference/lattice.py *)

\* limit: the default of _merge_examples' limit parameter
ExamplesLimit == 3

_merge_examples(l, r) ==
    LET merged == SortedStrs(Range(l) \cup Range(r))
    IN SubSeq(merged, 1, IF Len(merged) < ExamplesLimit THEN Len(merged) ELSE ExamplesLimit)

\* sorted(deduped, key=type_sort_key): the sort is stable, and deduped is a
\* set, whose iteration order is not fixed: every order of the options that is
\* nondecreasing in the key is an outcome.
RECURSIVE SortedByKey(_)
SortedByKey(S) ==
    IF S = {} THEN {<< >>}
    ELSE LET mins == {x \in S : \A y \in S : StrLE(type_sort_key(x), type_sort_key(y))}
         IN UNION {{<< m >> \o rest : rest \in SortedByKey(S \ {m})} : m \in mins}

\* simplify_union with the Int/Float collapse applied whatever strict_numbers is
simplify_union_always_collapse(nodes, strict) ==
    LET options == flatten_union_options(nodes)
        all == Range(options)
        deduped == IF FLOAT \in all /\ INT \in all THEN all \ {INT} ELSE all
    IN IF \E i \in 1..Len(options) : options[i].kind = "Any" THEN {ANY}
       ELSE IF Cardinality(deduped) = 1 THEN deduped
       ELSE {UnionType(o) : o \in SortedByKey(deduped)}

simplify_union(nodes, strict) ==
    LET options == flatten_union_options(nodes)
        all == Range(options)
        deduped == IF ~strict /\ FLOAT \in all /\ INT \in all THEN all \ {INT} ELSE all
    IN IF \E i \in 1..Len(options) : options[i].kind = "Any" THEN {ANY}
       ELSE IF Cardinality(deduped) = 1 THEN deduped
       ELSE {UnionType(o) : o \in SortedByKey(deduped)}

RECURSIVE join_types(_, _, _)
RECURSIVE _join_object_fields(_, _, _)

\* _join_object_fields with a one-sided field counted as present in the samples
\* of the operand that lacks it
_join_object_fields_present_everywhere(l, r, strict) ==
    LET names == DOMAIN l.fields \cup DOMAIN r.fields
        total_samples == l.sample_count + r.sample_count
        Merged(name) ==
            IF name \in DOMAIN l.fields /\ name \in DOMAIN r.fields
            THEN {FieldInfo(t,
                            l.fields[name].required_count + r.fields[name].required_count,
                            total_samples,
                            _merge_examples(l.fields[name].examples, r.fields[name].examples))
                  : t \in join_types(l.fields[name].type_node, r.fields[name].type_node, strict)}
            ELSE IF name \in DOMAIN l.fields
            THEN {FieldInfo(l.fields[name].type_node, total_samples,
                            total_samples, l.fields[name].examples)}
            ELSE {FieldInfo(r.fields[name].type_node, total_samples,
                            total_samples, r.fields[name].examples)}
        choices == [n \in names |-> Merged(n)]
        merged == {m \in [names -> UNION {choices[n] : n \in names}] :
                      \A n \in names : m[n] \in choices[n]}
    IN {ObjectType(m, total_samples) : m \in merged}

\* _join_object_fields with each merged field's sample_count taken from the left
\* operand alone
_join_object_fields_left_count(l, r, strict) ==
    LET names == DOMAIN l.fields \cup DOMAIN r.fields
        total_samples == l.sample_count + r.sample_count
        Merged(name) ==
            IF name \in DOMAIN l.fields /\ name \in DOMAIN r.fields
            THEN {FieldInfo(t,
                            l.fields[name].required_count + r.fields[name].required_count,
                            l.sample_count,
                            _merge_examples(l.fields[name].examples, r.fields[name].examples))
                  : t \in join_types(l.fields[name].type_node, r.fields[name].type_node, strict)}
            ELSE IF name \in DOMAIN l.fields
            THEN {FieldInfo(l.fields[name].type_node, l.fields[name].required_count,
                            l.sample_count, l.fields[name].examples)}
            ELSE {FieldInfo(r.fields[name].type_node, r.fields[name].required_count,
                            l.sample_count, r.fields[name].examples)}
        choices == [n \in names |-> Merged(n)]
        merged == {m \in [names -> UNION {choices[n] : n \in names}] :
                      \A n \in names : m[n] \in choices[n]}
    IN {ObjectType(m, total_samples) : m \in merged}

\* _join_object_fields with a one-sided field's FieldInfo copied as it was, its
\* sample_count not raised to the total
_join_object_fields_verbatim(l, r, strict) ==
    LET names == DOMAIN l.fields \cup DOMAIN r.fields
        total_samples == l.sample_count + r.sample_count
        Merged(name) ==
            IF name \in DOMAIN l.fields /\ name \in DOMAIN r.fields
            THEN {FieldInfo(t,
                            l.fields[name].required_count + r.fields[name].required_count,
                            total_samples,
                            _merge_examples(l.fields[name].examples, r.fields[name].examples))
                  : t \in join_types(l.fields[name].type_node, r.fields[name].type_node, strict)}
            ELSE IF name \in DOMAIN l.fields THEN {l.fields[name]}
            ELSE {r.fields[name]}
        choices == [n \in names |-> Merged(n)]
        merged == {m \in [names -> UNION {choices[n] : n \in names}] :
                      \A n \in names : m[n] \in choices[n]}
    IN {ObjectType(m, total_samples) : m \in merged}

_join_object_fields(l, r, strict) ==
    LET names == DOMAIN l.fields \cup DOMAIN r.fields
        total_samples == l.sample_count + r.sample_count
        Merged(name) ==
            IF name \in DOMAIN l.fields /\ name \in DOMAIN r.fields
            THEN {FieldInfo(t,
                            l.fields[name].required_count + r.fields[name].required_count,
                            total_samples,
                            _merge_examples(l.fields[name].examples, r.fields[name].examples))
                  : t \in join_types(l.fields[name].type_node, r.fields[name].type_node, strict)}
            ELSE IF name \in DOMAIN l.fields
            THEN {FieldInfo(l.fields[name].type_node, l.fields[name].required_count,
                            total_samples, l.fields[name].examples)}
            ELSE {FieldInfo(r.fields[name].type_node, r.fields[name].required_count,
                            total_samples, r.fields[name].examples)}
        choices == [n \in names |-> Merged(n)]
        merged == {m \in [names -> UNION {choices[n] : n \in names}] :
                      \A n \in names : m[n] \in choices[n]}
    IN {ObjectType(m, total_samples) : m \in merged}

\* join_types without the equal-operands shortcut
join_types_no_shortcut(l, r, strict) ==
    IF l.kind = "Any" \/ r.kind = "Any" THEN {ANY}
    ELSE IF l.kind = "Int" /\ r.kind = "Float" THEN simplify_union(<< l, r >>, strict)
    ELSE IF l.kind = "Float" /\ r.kind = "Int" THEN simplify_union(<< l, r >>, strict)
    ELSE IF l.kind = "Array" /\ r.kind = "Array"
    THEN {ArrayType(t) : t \in join_types(l.item_type, r.item_type, strict)}
    ELSE IF l.kind = "Object" /\ r.kind = "Object" THEN _join_object_fields(l, r, strict)
    ELSE simplify_union(<< l, r >>, strict)

join_types(l, r, strict) ==
    IF l = r THEN {l}
    ELSE IF l.kind = "Any" \/ r.kind = "Any" THEN {ANY}
    ELSE IF l.kind = "Int" /\ r.kind = "Float" THEN simplify_union(<< l, r >>, strict)
    ELSE IF l.kind = "Float" /\ r.kind = "Int" THEN simplify_union(<< l, r >>, strict)
    ELSE IF l.kind = "Array" /\ r.kind = "Array"
    THEN {ArrayType(t) : t \in join_types(l.item_type, r.item_type, strict)}
    ELSE IF l.kind = "Object" /\ r.kind = "Object" THEN _join_object_fields(l, r, strict)
    ELSE simplify_union(<< l, r >>, strict)

-----------------------------------------------------------------------------
(* monitor/drift.py *)

BREAKING_DRIFT_KINDS == {"type_mismatch", "missing_required_field"}

DriftEvent(path, exp, obs, kind) ==
    [path |-> path, expected |-> exp, observed |-> obs, kind |-> kind]

\* drift_severity that calls every event breaking
drift_severity_all_breaking(event) == "breaking"

drift_severity(event) ==
    IF event.kind \in BREAKING_DRIFT_KINDS THEN "breaking" ELSE "warning"

_is_same_scalar_family(exp, obs) ==
    \E k \in {"Bool", "Int", "Float", "Str", "DateTime", "Null"} :
        exp.kind = k /\ obs.kind = k

RECURSIVE _is_compatible(_, _)

\* _is_compatible without the rule that Float accepts Int
_is_compatible_no_widening(exp, obs) ==
    IF exp = ANY THEN TRUE
    ELSE IF exp = obs THEN TRUE
    ELSE IF exp.kind = "Union"
    THEN \E i \in 1..Len(exp.options) : _is_compatible(exp.options[i], obs)
    ELSE IF exp.kind = "Array" /\ obs.kind = "Array"
    THEN _is_compatible(exp.item_type, obs.item_type)
    ELSE IF exp.kind = "Object" /\ obs.kind = "Object"
    THEN \A name \in DOMAIN exp.fields :
             IF name \notin DOMAIN obs.fields
             THEN ~required(exp.fields[name])
             ELSE _is_compatible(exp.fields[name].type_node, obs.fields[name].type_node)
    ELSE _is_same_scalar_family(exp, obs)

_is_compatible(exp, obs) ==
    IF exp = ANY THEN TRUE
    ELSE IF exp = obs THEN TRUE
    ELSE IF exp = FLOAT /\ obs = INT THEN TRUE
    ELSE IF exp.kind = "Union"
    THEN \E i \in 1..Len(exp.options) : _is_compatible(exp.options[i], obs)
    ELSE IF exp.kind = "Array" /\ obs.kind = "Array"
    THEN _is_compatible(exp.item_type, obs.item_type)
    ELSE IF exp.kind = "Object" /\ obs.kind = "Object"
    THEN \A name \in DOMAIN exp.fields :
             IF name \notin DOMAIN obs.fields
             THEN ~required(exp.fields[name])
             ELSE _is_compatible(exp.fields[name].type_node, obs.fields[name].type_node)
    ELSE _is_same_scalar_family(exp, obs)

RECURSIVE detect_drift(_, _, _)
RECURSIVE _detect_object_drift(_, _, _)
RECURSIVE ExpectedFieldDrifts(_, _, _, _)

\* the first loop of _detect_object_drift, over the expected fields `names`
\* ExpectedFieldDrifts reporting every expected field the observed object lacks,
\* optional ones included
ExpectedFieldDrifts_all_required(names, exp, obs, path) ==
    IF names = << >> THEN << >>
    ELSE LET name == Head(names)
             field == exp.fields[name]
             child_path == path \o s_dot \o Chars(name)
             here ==
                 IF name \notin DOMAIN obs.fields
                 THEN << DriftEvent(child_path, type_name(field.type_node),
                                    s_missing, "missing_required_field") >>
                 ELSE detect_drift(field.type_node, obs.fields[name].type_node, child_path)
         IN here \o ExpectedFieldDrifts(Tail(names), exp, obs, path)

ExpectedFieldDrifts(names, exp, obs, path) ==
    IF names = << >> THEN << >>
    ELSE LET name == Head(names)
             field == exp.fields[name]
             child_path == path \o s_dot \o Chars(name)
             here ==
                 IF name \notin DOMAIN obs.fields
                 THEN IF required(field)
                      THEN << DriftEvent(child_path, type_name(field.type_node),
                                         s_missing, "missing_required_field") >>
                      ELSE << >>
                 ELSE detect_drift(field.type_node, obs.fields[name].type_node, child_path)
         IN here \o ExpectedFieldDrifts(Tail(names), exp, obs, path)

_detect_object_drift(exp, obs, path) ==
    LET added == SortedNames(DOMAIN obs.fields \ DOMAIN exp.fields)
    IN ExpectedFieldDrifts(SortedNames(DOMAIN exp.fields), exp, obs, path)
         \o [i \in 1..Len(added) |->
                DriftEvent(path \o s_dot \o Chars(added[i]), s_absent,
                           type_name(obs.fields[added[i]].type_node), "new_field")]

\* detect_drift reporting any incompatible pair, objects included, as one
\* type_mismatch
detect_drift_blunt(exp, obs, path) ==
    IF exp.kind = "Union"
         /\ \E i \in 1..Len(exp.options) : _is_compatible(exp.options[i], obs)
    THEN << >>
    ELSE IF ~_is_compatible(exp, obs)
    THEN << DriftEvent(path, type_name(exp), type_name(obs), "type_mismatch") >>
    ELSE IF exp.kind = "Object" /\ obs.kind = "Object"
    THEN _detect_object_drift(exp, obs, path)
    ELSE IF exp.kind = "Array" /\ obs.kind = "Array"
    THEN detect_drift(exp.item_type, obs.item_type, path \o s_brackets)
    ELSE << >>

\* detect_drift descending into the compatible option of an expected Union
\* instead of returning at once
detect_drift_into_option(exp, obs, path) ==
    IF exp.kind = "Union"
         /\ \E i \in 1..Len(exp.options) : _is_compatible(exp.options[i], obs)
    THEN LET first == CHOOSE i \in 1..Len(exp.options) :
                          /\ _is_compatible(exp.options[i], obs)
                          /\ \A j \in 1..(i - 1) : ~_is_compatible(exp.options[j], obs)
         IN detect_drift(exp.options[first], obs, path)
    ELSE IF ~_is_compatible(exp, obs)
    THEN IF exp.kind = "Object" /\ obs.kind = "Object"
         THEN _detect_object_drift(exp, obs, path)
         ELSE IF exp.kind = "Array" /\ obs.kind = "Array"
         THEN detect_drift(exp.item_type, obs.item_type, path \o s_brackets)
         ELSE << DriftEvent(path, type_name(exp), type_name(obs), "type_mismatch") >>
    ELSE IF exp.kind = "Object" /\ obs.kind = "Object"
    THEN _detect_object_drift(exp, obs, path)
    ELSE IF exp.kind = "Array" /\ obs.kind = "Array"
    THEN detect_drift(exp.item_type, obs.item_type, path \o s_brackets)
    ELSE << >>

detect_drift(exp, obs, path) ==
    IF exp.kind = "Union"
         /\ \E i \in 1..Len(exp.options) : _is_compatible(exp.options[i], obs)
    THEN << >>
    ELSE IF ~_is_compatible(exp, obs)
    THEN IF exp.kind = "Object" /\ obs.kind = "Object"
         THEN _detect_object_drift(exp, obs, path)
         ELSE IF exp.kind = "Array" /\ obs.kind = "Array"
         THEN detect_drift(exp.item_type, obs.item_type, path \o s_brackets)
         ELSE << DriftEvent(path, type_name(exp), type_name(obs), "type_mismatch") >>
    ELSE IF exp.kind = "Object" /\ obs.kind = "Object"
    THEN _detect_object_drift(exp, obs, path)
    ELSE IF exp.kind = "Array" /\ obs.kind = "Array"
    THEN detect_drift(exp.item_type, obs.item_type, path \o s_brackets)
    ELSE << >>

-----------------------------------------------------------------------------
(* Python values, as json.loads returns them *)

PyNone == [py |-> "NoneType"]
PyBool(b) == [py |-> "bool", v |-> b]
PyInt(n) == [py |-> "int", v |-> n]
\* the float whole + tenths / 10
PyFloat(whole, tenths) == [py |-> "float", whole |-> whole, tenths |-> tenths]
PyStr(s) == [py |-> "str", v |-> s]
PyList(items) == [py |-> "list", items |-> items]
\* items: the (key, value) pairs in insertion order, keys distinct
PyDict(items) == [py |-> "dict", items |-> items]

RECURSIVE Digits(_)
Digits(n) == IF n < 10 THEN << 48 + n >> ELSE Digits(n \div 10) \o << 48 + (n % 10) >>

RECURSIVE repr(_)
repr(value) ==
    CASE value.py = "NoneType" -> s_None
      [] value.py = "bool" -> IF value.v THEN s_True ELSE s_False
      [] value.py = "int" -> Digits(value.v)
      [] value.py = "float" -> Digits(value.whole) \o s_dot \o Digits(value.tenths)
      [] value.py = "str" -> s_quote \o Chars(value.v) \o s_quote
      [] value.py = "list" ->
             s_open_bracket
               \o Join(s_comma_space, [i \in 1..Len(value.items) |-> repr(value.items[i])])
               \o s_close_bracket
      [] value.py = "dict" ->
             s_open_brace
               \o Join(s_comma_space,
                       [i \in 1..Len(value.items) |->
                           s_quote \o Chars(value.items[i][1]) \o s_quote
                             \o s_colon_space \o repr(value.items[i][2])])
               \o s_close_brace

-----------------------------------------------------------------------------
(* inference/infer.py *)

\* The sample texts datetime.fromisoformat accepts (after "Z" -> "+00:00").
IsoTexts == {"2024-01-01T00:00:00Z"}

_is_datetime_string(s) ==
    IF Len(Chars(s)) < 10 THEN FALSE ELSE s \in IsoTexts

\* sample = repr(raw_val), cut to 77 characters and "..." when longer than 80
ExampleOf(raw_val) ==
    LET sample == repr(raw_val)
    IN IF Len(sample) > 80 THEN SubSeq(sample, 1, 77) \o s_ellipsis ELSE sample

\* infer_type: the set of outcomes (a list's items are joined with join_types,
\* with its default strict_numbers=False).
RECURSIVE infer_type(_)
RECURSIVE FoldItems(_, _)
FoldItems(acc, items) ==
    IF items = << >> THEN {acc}
    ELSE UNION {FoldItems(j, Tail(items)) :
                   j \in UNION {join_types(acc, t, FALSE) : t \in infer_type(Head(items))}}

infer_type(value) ==
    CASE value.py = "NoneType" -> {NULL}
      [] value.py = "bool" -> {BOOL}
      [] value.py = "int" -> {INT}
      [] value.py = "float" -> {FLOAT}
      [] value.py = "str" -> IF _is_datetime_string(value.v) THEN {DATETIME} ELSE {STR}
      [] value.py = "list" ->
             IF value.items = << >> THEN {ArrayType(ANY)}
             ELSE {ArrayType(t) :
                      t \in UNION {FoldItems(first, Tail(value.items)) :
                                      first \in infer_type(Head(value.items))}}
      [] value.py = "dict" ->
             LET names == {value.items[i][1] : i \in 1..Len(value.items)}
                 ValueOf(n) == (CHOOSE i \in 1..Len(value.items) : value.items[i][1] = n)
                 choices == [n \in names |->
                               {FieldInfo(t, 1, 1, << ExampleOf(value.items[ValueOf(n)][2]) >>)
                                  : t \in infer_type(value.items[ValueOf(n)][2])}]
                 fields == {m \in [names -> UNION {choices[n] : n \in names}] :
                               \A n \in names : m[n] \in choices[n]}
             IN {ObjectType(m, 1) : m \in fields}
      [] OTHER -> {ANY}

\* TypeInferer.observe: the outcomes for the new _root
observe(cur_root, value, strict) ==
    UNION {IF cur_root = None THEN {obs} ELSE join_types(cur_root, obs, strict)
             : obs \in infer_type(value)}

\* TypeInferer.observe_many from a fresh inferer: the outcomes for the final _root
RECURSIVE ObserveFrom(_, _, _)
ObserveFrom(cur_root, values, strict) ==
    IF values = << >> THEN {cur_root}
    ELSE UNION {ObserveFrom(r, Tail(values), strict) : r \in observe(cur_root, Head(values), strict)}

observe_many(values, strict) == ObserveFrom(None, values, strict)

-----------------------------------------------------------------------------
(* Samples *)

v_null == PyNone
v_int == PyInt(1)
v_float == PyFloat(1, 5)
v_str == PyStr("s")
v_date == PyStr("2024-01-01T00:00:00Z")
v_empty_list == PyList(<< >>)
v_int_list == PyList(<< PyInt(1) >>)
v_mixed_list == PyList(<< PyInt(1), PyStr("s") >>)
v_empty_obj == PyDict(<< >>)
v_id1 == PyDict(<< << "id", PyInt(1) >> >>)
v_id_str == PyDict(<< << "id", PyStr("s") >> >>)
v_id_float == PyDict(<< << "id", PyFloat(1, 5) >> >>)
v_id_name == PyDict(<< << "id", PyInt(1) >>, << "name", PyStr("a") >> >>)
v_id_name_extra ==
    PyDict(<< << "id", PyStr("s") >>, << "name", PyStr("a") >>, << "extra", PyInt(2) >> >>)
v_nested == PyDict(<< << "id", PyDict(<< << "name", PyStr("a") >> >>) >> >>)
v_obj_list == PyList(<< v_id1, v_empty_obj >>)
v_id_extra == PyDict(<< << "id", PyStr("s") >>, << "extra", PyInt(2) >> >>)
v_float_list == PyList(<< PyFloat(1, 5) >>)
v_num_list == PyList(<< PyInt(1), PyFloat(1, 5) >>)

Inferred(values) == UNION {infer_type(v) : v \in values}

-----------------------------------------------------------------------------
(* The lattice: join_types applied to inferred types and to its own results *)

LatticeSamples ==
    {v_null, v_int, v_float, v_str, v_date, v_empty_list, v_int_list, v_mixed_list,
     v_id1, v_id_str, v_id_name}

ThirdSamples == {v_str, v_int_list, v_id_name}

MonitorIdle ==
    /\ files = << >> /\ autopatch = FALSE /\ expected_root = None
    /\ file_idx = 0 /\ sample_idx = 0 /\ pc = "idle" /\ cur_observed = None
    /\ file_events = << >> /\ drifts = << >> /\ files_scanned = 0
    /\ report = None /\ prev_root = None /\ sample_events = << >>
    /\ hit_files = {} /\ rerun = FALSE
    /\ fail_on = None /\ monitor_payload = None /\ exit_code = None

DiffIdle ==
    /\ old_file = None /\ new_file = None /\ old = None /\ new = None /\ entries = None

CodecIdle ==
    /\ state_root = None /\ state_payload = None /\ loaded = None
    /\ schema = None /\ imported = None

ToolsIdle == DiffIdle /\ CodecIdle

InfererIdle == root = << >> /\ seen = << >>

DriftIdle == expected = None /\ observed = None /\ events = None

LatticeIdle == left = None /\ right = None /\ third = None /\ out = None

Init ==
    /\ strict_numbers \in BOOLEAN
    /\ left \in Inferred(LatticeSamples)
    /\ right \in Inferred(LatticeSamples)
    /\ third \in Inferred(ThirdSamples)
    /\ out = None
    /\ InfererIdle /\ DriftIdle /\ MonitorIdle /\ ToolsIdle

\* infer_type(value), kept as the left operand
InferLeft ==
    /\ \E v \in LatticeSamples : left' \in infer_type(v)
    /\ out' = None
    /\ UNCHANGED << strict_numbers, right, third, infererVars, driftVars, monitorVars, toolVars >>

InferRight ==
    /\ \E v \in LatticeSamples : right' \in infer_type(v)
    /\ out' = None
    /\ UNCHANGED << strict_numbers, left, third, infererVars, driftVars, monitorVars, toolVars >>

InferThird ==
    /\ \E v \in ThirdSamples : third' \in infer_type(v)
    /\ UNCHANGED << strict_numbers, left, right, out, infererVars, driftVars, monitorVars, toolVars >>

\* out = join_types(left, right, strict_numbers=strict_numbers)
JoinStep ==
    /\ out = None
    /\ out' \in join_types(left, right, strict_numbers)
    /\ UNCHANGED << strict_numbers, left, right, third, infererVars, driftVars, monitorVars, toolVars >>

\* the result becomes an operand of a later join
FeedLeft ==
    /\ out # None /\ Weight(out) <= MaxWeight
    /\ left' = out /\ out' = None
    /\ UNCHANGED << strict_numbers, right, third, infererVars, driftVars, monitorVars, toolVars >>

FeedRight ==
    /\ out # None /\ Weight(out) <= MaxWeight
    /\ right' = out /\ out' = None
    /\ UNCHANGED << strict_numbers, left, third, infererVars, driftVars, monitorVars, toolVars >>

Next == InferLeft \/ InferRight \/ InferThird \/ JoinStep \/ FeedLeft \/ FeedRight

Spec == Init /\ [][Next]_vars

-----------------------------------------------------------------------------
(* Claims about join_types *)

\* C1: join_types is associative: with out = join_types(left, right),
\* join_types(out, third) equals join_types(left, join_types(right, third)).
C1_JoinAssociative ==
    out # None =>
        \A ab_c \in join_types(out, third, strict_numbers) :
            \A bc \in join_types(right, third, strict_numbers) :
                \A a_bc \in join_types(left, bc, strict_numbers) : ab_c = a_bc

\* C2: join_types is commutative: join_types(left, right) equals
\* join_types(right, left).
C2_JoinCommutative ==
    out # None => \A flipped \in join_types(right, left, strict_numbers) : flipped = out

\* C5: the join is compatible with both of its operands.
C5_JoinGeneralizesOperands ==
    out # None => _is_compatible(out, left) /\ _is_compatible(out, right)

\* C9: joining Int and Float, in either order, gives Float when strict_numbers
\* is false and the one Union (Float, Int) when it is true.
C9_NumericWidening ==
    (out # None /\ {left, right} = {INT, FLOAT}) =>
        out = (IF strict_numbers THEN UnionType(<< FLOAT, INT >>) ELSE FLOAT)

C9_Witness ==
    /\ left = FLOAT /\ right = INT /\ strict_numbers
    /\ out = UnionType(<< FLOAT, INT >>)

RECURSIVE UnionsWellFormed(_)
\* every Union of the type has 2 or more options, pairwise distinct, none of
\* them a Union or Any
UnionsWellFormed(node) ==
    CASE node.kind = "Array" -> UnionsWellFormed(node.item_type)
      [] node.kind = "Object" ->
             \A f \in DOMAIN node.fields : UnionsWellFormed(node.fields[f].type_node)
      [] node.kind = "Union" ->
             /\ Len(node.options) >= 2
             /\ \A i \in 1..Len(node.options) :
                    /\ node.options[i].kind \notin {"Union", "Any"}
                    /\ \A j \in 1..Len(node.options) :
                           i # j => node.options[i] # node.options[j]
                    /\ UnionsWellFormed(node.options[i])
      [] OTHER -> TRUE

\* C11: in every type infer_type and join_types produce, each Union, at any
\* depth, has no Union and no Any as a direct option and has at least 2
\* pairwise-distinct options.
C11_UnionInvariants ==
    /\ UnionsWellFormed(left) /\ UnionsWellFormed(right) /\ UnionsWellFormed(third)
    /\ out # None => UnionsWellFormed(out)

\* a Union operand joined with one more type: its options are flattened into
\* the result
C11_Witness ==
    /\ out # None /\ out.kind = "Union" /\ Len(out.options) = 3
    /\ left.kind = "Union" /\ right.kind # "Union"

\* C12: join_types(a, a) is a, for every type a, objects with their counts and
\* examples included, whatever strict_numbers is.
C12_JoinIdempotent ==
    /\ \A a \in {left, right, third} : join_types(a, a, strict_numbers) = {a}
    /\ out # None =>
           /\ join_types(out, out, strict_numbers) = {out}
           /\ left = right => out = left

\* an object joined with itself
C12_Witness ==
    /\ out # None /\ left = right /\ out = left
    /\ left.kind = "Object" /\ "id" \in DOMAIN left.fields
    /\ left.fields["id"].examples # << >>

RECURSIVE TypeShape(_)
\* the shape of a type: its variant, an array's item shape, an object's field
\* names with the shape of each field's type, a union's set of option shapes;
\* sample counts, required counts and examples are left out
TypeShape(node) ==
    CASE node.kind = "Array" -> [shape |-> "Array", item |-> TypeShape(node.item_type)]
      [] node.kind = "Object" ->
             [shape |-> "Object",
              fields |-> [f \in DOMAIN node.fields |-> TypeShape(node.fields[f].type_node)]]
      [] node.kind = "Union" ->
             [shape |-> "Union",
              options |-> {TypeShape(node.options[i]) : i \in 1..Len(node.options)}]
      [] OTHER -> [shape |-> node.kind]

\* the operands and, once join_types has returned, its result
LatticeNodes == {left, right, third} \cup (IF out = None THEN {} ELSE {out})

\* C21: type_name is collision-free across type shapes: two types that differ
\* in variant, in array item type, in an object's field names or the type of
\* any of its fields, or in a union's option set have different type_name
\* strings.
C21_TypeNameCollisionFree ==
    \A a, b \in LatticeNodes :
        TypeShape(a) # TypeShape(b) => type_name(a) # type_name(b)

\* C22: the join of two object nodes has the sum of their sample counts as its
\* sample_count.
C22_JoinAddsSampleCounts ==
    (out # None /\ left.kind = "Object" /\ right.kind = "Object") =>
        /\ out.kind = "Object"
        /\ out.sample_count = left.sample_count + right.sample_count

\* the fields of the joined objects that only one operand has, each with the
\* FieldInfo that operand holds for it
OneSidedFields ==
    {<< f, left.fields[f] >> : f \in DOMAIN left.fields \ DOMAIN right.fields}
        \cup {<< f, right.fields[f] >> : f \in DOMAIN right.fields \ DOMAIN left.fields}

\* C23 as stated: a field that only one of two joined objects has is in the
\* result with its FieldInfo copied as it was: type, required_count,
\* sample_count and examples.
C23_OneSidedFieldVerbatim ==
    (out # None /\ left.kind = "Object" /\ right.kind = "Object") =>
        \A p \in OneSidedFields :
            /\ p[1] \in DOMAIN out.fields
            /\ out.fields[p[1]] = p[2]

\* C23, amended: a field that only one of two joined objects has is in the
\* result with the type, the required_count and the examples that
\* operand holds for it; its sample_count is the sum of the two objects'
\* sample counts.
C23_OneSidedFieldCounted ==
    (out # None /\ left.kind = "Object" /\ right.kind = "Object") =>
        \A p \in OneSidedFields :
            /\ p[1] \in DOMAIN out.fields
            /\ out.fields[p[1]] =
                   FieldInfo(p[2].type_node, p[2].required_count,
                             left.sample_count + right.sample_count, p[2].examples)

\* an object that has seen "name" in one of two samples, joined with an object
\* that has no "name"
C23_Witness ==
    /\ out # None /\ left.kind = "Object" /\ right.kind = "Object"
    /\ "name" \in DOMAIN left.fields /\ "name" \notin DOMAIN right.fields
    /\ left.sample_count = 2 /\ left.fields["name"].required_count = 1
    /\ out.fields["name"].required_count = 1
    /\ out.fields["name"].sample_count = left.sample_count + right.sample_count

RECURSIVE CountsBounded(_)
\* every FieldInfo of the type, at any depth, has required_count <= sample_count
CountsBounded(node) ==
    CASE node.kind = "Array" -> CountsBounded(node.item_type)
      [] node.kind = "Object" ->
             \A f \in DOMAIN node.fields :
                 /\ node.fields[f].required_count <= node.fields[f].sample_count
                 /\ CountsBounded(node.fields[f].type_node)
      [] node.kind = "Union" ->
             \A i \in 1..Len(node.options) : CountsBounded(node.options[i])
      [] OTHER -> TRUE

\* C24: every FieldInfo that infer_type and join_types produce, anywhere in a
\* type, has required_count <= sample_count.
C24_RequiredCountBounded == \A a \in LatticeNodes : CountsBounded(a)

\* a field both operands have, joined from objects of more than one sample
C24_Witness ==
    /\ out # None /\ out.kind = "Object" /\ out.sample_count >= 3
    /\ \E f \in DOMAIN out.fields :
           /\ f \in DOMAIN left.fields /\ f \in DOMAIN right.fields
           /\ out.fields[f].required_count = out.fields[f].sample_count
    /\ \E f \in DOMAIN out.fields :
           out.fields[f].required_count < out.fields[f].sample_count

\* the events of detect_drift(exp, obs) that are breaking
BreakingEvents(exp, obs) ==
    LET evs == detect_drift(exp, obs, s_dollar)
    IN {i \in 1..Len(evs) : drift_severity(evs[i]) = "breaking"}

\* C27: _is_compatible(expected, observed) is true exactly when
\* detect_drift(expected, observed) returns no breaking event, for every pair
\* of type nodes.
C27_CompatibleIffNoBreaking ==
    \A e, o \in LatticeNodes : _is_compatible(e, o) <=> BreakingEvents(e, o) = {}

\* an expected object with an optional field, against an object without that
\* field: compatible and no event; against a string: incompatible and one
\* breaking event
C27_Witness ==
    /\ left.kind = "Object" /\ right.kind = "Object" /\ third = STR
    /\ \E f \in DOMAIN left.fields :
           f \notin DOMAIN right.fields /\ ~required(left.fields[f])
    /\ _is_compatible(left, right) /\ BreakingEvents(left, right) = {}
    /\ ~_is_compatible(left, third) /\ BreakingEvents(left, third) = {1}

-----------------------------------------------------------------------------
(* TypeInferer: independent inferers, each observing its own samples *)

Inferers == {"a", "b"}

InfererSamples == {v_id1, v_id_name, v_empty_obj, v_int}

InitInfer ==
    /\ strict_numbers \in BOOLEAN
    /\ root = [i \in Inferers |-> None]
    /\ seen = [i \in Inferers |-> << >>]
    /\ LatticeIdle /\ DriftIdle /\ MonitorIdle /\ ToolsIdle

\* inferer i: observe(value)
Observe(i, value) ==
    /\ Len(seen[i]) < MaxObserved
    /\ \E r \in observe(root[i], value, strict_numbers) : root' = [root EXCEPT ![i] = r]
    /\ seen' = [seen EXCEPT ![i] = Append(@, value)]
    /\ UNCHANGED << strict_numbers, latticeVars, driftVars, monitorVars, toolVars >>

NextInfer == \E i \in Inferers : \E value \in InfererSamples : Observe(i, value)

SpecInfer == InitInfer /\ [][NextInfer]_vars

\* all orders of a list
RECURSIVE Orders(_)
Orders(seq) ==
    IF seq = << >> THEN {<< >>}
    ELSE UNION {{<< seq[i] >> \o rest :
                    rest \in Orders([j \in 1..(Len(seq) - 1) |->
                                        IF j < i THEN seq[j] ELSE seq[j + 1]])}
                 : i \in 1..Len(seq)}

\* C3: the roots of two batches, joined in either order, equal the root one
\* inferer gets from all the samples of both batches, in any order.
C3_BatchingIndependent ==
    (seen["a"] # << >> /\ seen["b"] # << >>) =>
        \A merged \in join_types(root["a"], root["b"], strict_numbers)
                         \cup join_types(root["b"], root["a"], strict_numbers) :
            \A order \in Orders(seen["a"] \o seen["b"]) :
                \A single \in observe_many(order, strict_numbers) : merged = single

Keys(value) == {value.items[k][1] : k \in 1..Len(value.items)}

\* C4: after a non-empty sequence of object samples, a top-level field of the
\* root is required exactly when every observed sample has it.
C4_RequiredIffAlwaysPresent ==
    \A i \in Inferers :
        (seen[i] # << >> /\ \A k \in 1..Len(seen[i]) : seen[i][k].py = "dict") =>
            /\ root[i].kind = "Object"
            /\ DOMAIN root[i].fields = UNION {Keys(seen[i][k]) : k \in 1..Len(seen[i])}
            /\ \A f \in DOMAIN root[i].fields :
                   required(root[i].fields[f])
                     <=> \A k \in 1..Len(seen[i]) : f \in Keys(seen[i][k])

\* {id, name} then {id}: id is required, name is optional
C4_Witness ==
    /\ seen["a"] = << v_id_name, v_id1 >>
    /\ required(root["a"].fields["id"])
    /\ ~required(root["a"].fields["name"])

-----------------------------------------------------------------------------
(* One TypeInferer observing numbers: alone, as array elements, as a field *)

NumberSamples == {v_int, v_float, v_int_list, v_float_list, v_num_list, v_id1, v_id_float}

InitNumbers ==
    /\ strict_numbers \in BOOLEAN
    /\ root = [i \in {"a"} |-> None]
    /\ seen = [i \in {"a"} |-> << >>]
    /\ LatticeIdle /\ DriftIdle /\ MonitorIdle /\ ToolsIdle

NextNumbers == \E value \in NumberSamples : Observe("a", value)

SpecNumbers == InitNumbers /\ [][NextNumbers]_vars

\* the positions of a sample: the value itself, an element of it, its field id
Positions == {"$", "$[]", "$.id"}

\* the Python types of the values a sample holds at a position
PyTypesAt(value, pos) ==
    CASE pos = "$" -> {value.py}
      [] pos = "$[]" ->
             IF value.py = "list"
             THEN {value.items[k].py : k \in 1..Len(value.items)}
             ELSE {}
      [] OTHER ->
             IF value.py = "dict"
             THEN {value.items[k][2].py :
                      k \in {n \in 1..Len(value.items) : value.items[n][1] = "id"}}
             ELSE {}

\* the Python types inferer "a" has seen at a position
SeenAt(pos) == UNION {PyTypesAt(seen["a"][k], pos) : k \in 1..Len(seen["a"])}

\* a type, or the options of a Union
OptionsOf(node) ==
    IF node.kind = "Union" THEN {node.options[i] : i \in 1..Len(node.options)} ELSE {node}

\* the types a root holds at a position
TypesAt(node, pos) ==
    CASE pos = "$" -> {node}
      [] pos = "$[]" -> {o.item_type : o \in {x \in OptionsOf(node) : x.kind = "Array"}}
      [] OTHER ->
             {o.fields["id"].type_node :
                 o \in {x \in OptionsOf(node) : x.kind = "Object" /\ "id" \in DOMAIN x.fields}}

\* C30: a TypeInferer with strict_numbers=True never collapses Int into Float:
\* where it has seen both an integer and a float at one position (as the
\* value itself, as elements of arrays, one array included, or as a field),
\* the type inferred there still has Int as itself or as a Union option.
C30_StrictKeepsInt ==
    strict_numbers =>
        \A pos \in Positions :
            {"int", "float"} \subseteq SeenAt(pos) =>
                \E t \in TypesAt(root["a"], pos) : INT \in OptionsOf(t)

-----------------------------------------------------------------------------
(* detect_drift applied to an expected type and an inferred sample *)

DriftSamples ==
    {v_id1, v_id_str, v_id_name, v_id_name_extra, v_id_extra, v_empty_obj, v_nested, v_int}

InitDrift ==
    /\ strict_numbers \in BOOLEAN
    /\ expected \in Inferred(DriftSamples)
    /\ observed \in Inferred(DriftSamples)
    /\ events = None
    /\ LatticeIdle /\ InfererIdle /\ MonitorIdle /\ ToolsIdle

\* expected = infer_type(value)
LoadExpected ==
    /\ \E v \in DriftSamples : expected' \in infer_type(v)
    /\ events' = None
    /\ UNCHANGED << strict_numbers, observed, latticeVars, infererVars, monitorVars, toolVars >>

\* expected = join_types(expected, infer_type(value), strict_numbers)
JoinExpected ==
    /\ \E v \in DriftSamples : \E t \in infer_type(v) :
          \E j \in join_types(expected, t, strict_numbers) :
              Weight(j) <= MaxWeight + 2 /\ expected' = j
    /\ events' = None
    /\ UNCHANGED << strict_numbers, observed, latticeVars, infererVars, monitorVars, toolVars >>

\* observed = infer_type(value)
LoadObserved ==
    /\ \E v \in DriftSamples : observed' \in infer_type(v)
    /\ events' = None
    /\ UNCHANGED << strict_numbers, expected, latticeVars, infererVars, monitorVars, toolVars >>

\* events = detect_drift(expected, observed)
DetectStep ==
    /\ events = None
    /\ events' = Returned(detect_drift(expected, observed, s_dollar))
    /\ UNCHANGED << strict_numbers, expected, observed, latticeVars, infererVars, monitorVars, toolVars >>

NextDrift == LoadExpected \/ JoinExpected \/ LoadObserved \/ DetectStep

SpecDrift == InitDrift /\ [][NextDrift]_vars

Count(seq, x) == Cardinality({i \in 1..Len(seq) : seq[i] = x})

SameBag(s, t) == \A x \in Range(s) \cup Range(t) : Count(s, x) = Count(t, x)

\* the (kind, path) of each event of a list
KindAt(evs) == [i \in 1..Len(evs) |-> << evs[i].kind, evs[i].path >>]

RECURSIVE FieldwiseEvents(_, _, _, _)
\* what C6 lists for the field names `names`, for expected E and observed O
FieldwiseEvents(names, E, O, path) ==
    IF names = << >> THEN << >>
    ELSE LET f == Head(names)
             at == path \o s_dot \o Chars(f)
             part ==
                 IF f \in DOMAIN E.fields /\ f \notin DOMAIN O.fields
                 THEN IF E.fields[f].required_count = E.fields[f].sample_count
                      THEN << << "missing_required_field", at >> >>
                      ELSE << >>
                 ELSE IF f \in DOMAIN E.fields
                 THEN KindAt(detect_drift(E.fields[f].type_node, O.fields[f].type_node, at))
                 ELSE << << "new_field", at >> >>
         IN part \o FieldwiseEvents(Tail(names), E, O, path)

\* C6: for objects, detect_drift returns exactly: a missing_required_field for
\* each required expected field the observed object lacks, the events of
\* detect_drift on each shared field, and a new_field for each field only the
\* observed object has.
C6_ObjectDriftEvents ==
    (events # None /\ expected.kind = "Object" /\ observed.kind = "Object") =>
        /\ SameBag(KindAt(events.value),
                   FieldwiseEvents(SortedNames(DOMAIN expected.fields \cup DOMAIN observed.fields),
                                   expected, observed, s_dollar))
        /\ (expected \in infer_type(v_id_name) /\ observed \in infer_type(v_id_name_extra))
              => SameBag(KindAt(events.value),
                         << << "type_mismatch", s_dollar \o s_dot \o Chars("id") >>,
                            << "new_field", s_dollar \o s_dot \o Chars("extra") >> >>)
        /\ (expected \in infer_type(v_id1) /\ observed \in infer_type(v_empty_obj))
              => KindAt(events.value)
                   = << << "missing_required_field", s_dollar \o s_dot \o Chars("id") >> >>

C6_Witness ==
    /\ expected \in infer_type(v_id_name)
    /\ observed \in infer_type(v_id_name_extra)
    /\ events # None /\ Len(events.value) = 2

\* C19: every event detect_drift returns is a type_mismatch, a
\* missing_required_field or a new_field; drift_severity gives breaking for the
\* first two and warning for new_field, so each event has exactly one severity.
C19_SeverityTotal ==
    events # None =>
        \A i \in 1..Len(events.value) :
            LET event == events.value[i]
            IN /\ event.kind \in {"type_mismatch", "missing_required_field", "new_field"}
               /\ event.kind \in {"type_mismatch", "missing_required_field"}
                     => drift_severity(event) = "breaking"
               /\ event.kind = "new_field" => drift_severity(event) = "warning"
               /\ drift_severity(event) \in {"breaking", "warning"}

\* {id: 1, name: "a"} expected, {id: "s", extra: 2} observed: events of all
\* three kinds
C19_Witness ==
    /\ events # None
    /\ expected \in infer_type(v_id_name) /\ observed \in infer_type(v_id_extra)
    /\ {events.value[i].kind : i \in 1..Len(events.value)}
         = {"type_mismatch", "missing_required_field", "new_field"}
    /\ {drift_severity(events.value[i]) : i \in 1..Len(events.value)}
         = {"breaking", "warning"}

\* C25: when the expected type is a Union and at least one of its options is
\* compatible with the observed type, detect_drift returns no events; it does
\* not descend into the option, so fields the observed object has and the
\* option lacks are not reported.
C25_UnionShortCircuit ==
    (events # None /\ expected.kind = "Union"
       /\ \E i \in 1..Len(expected.options) : _is_compatible(expected.options[i], observed))
        => events.value = << >>

\* an object option of the expected Union accepts the observed object, which
\* has a field the option lacks
C25_Witness ==
    /\ events # None /\ events.value = << >>
    /\ expected.kind = "Union" /\ observed.kind = "Object"
    /\ \E i \in 1..Len(expected.options) :
           /\ expected.options[i].kind = "Object"
           /\ _is_compatible(expected.options[i], observed)
           /\ DOMAIN observed.fields \ DOMAIN expected.options[i].fields # {}

-----------------------------------------------------------------------------
(* monitor/watcher.py: monitor_directory_once, one step per loop position *)

FileDrift(path, evs) == [path |-> path, events |-> evs]

MonitorReport(scanned, with_drift, all_drifts) ==
    [kind |-> "MonitorReport", files_scanned |-> scanned,
     files_with_drift |-> with_drift, drifts |-> all_drifts]

\* _iter_samples
_iter_samples(payload) == IF payload.py = "list" THEN payload.items ELSE << payload >>

\* What read_json_file returns for the files of the directory.
MonitorPayloads ==
    {v_int, v_float, v_id1, v_id_str, v_id_float, v_id_name,
     PyList(<< v_id1, v_id_str >>), PyList(<< v_id_str, v_id_name >>),
     PyList(<< v_int_list >>), PyList(<< PyList(<< PyFloat(1, 5) >>) >>),
     PyList(<< v_mixed_list >>)}

\* The expected_root argument.
MonitorRoots ==
    {None, INT, FLOAT, ArrayType(INT), ArrayType(FLOAT)}
      \cup Inferred({v_id1, v_id_float})

RECURSIVE SeqsUpTo(_, _)
\* the lists of 1..n elements of S
SeqsUpTo(S, n) ==
    IF n = 0 THEN {}
    ELSE {<< x >> : x \in S}
           \cup {Append(q, x) : q \in SeqsUpTo(S, n - 1), x \in S}

InitMonitor ==
    /\ strict_numbers \in BOOLEAN
    /\ autopatch \in BOOLEAN
    /\ files \in SeqsUpTo(MonitorPayloads, MaxFiles)
    /\ expected_root \in MonitorRoots
    /\ file_idx = 0 /\ sample_idx = 0 /\ pc = "file" /\ cur_observed = None
    /\ file_events = << >> /\ drifts = << >> /\ files_scanned = 0
    /\ report = None /\ prev_root = None /\ sample_events = << >>
    /\ hit_files = {} /\ rerun = FALSE
    /\ fail_on = None /\ monitor_payload = None /\ exit_code = None
    /\ LatticeIdle /\ InfererIdle /\ DriftIdle /\ ToolsIdle

monitorFrame == << strict_numbers, files, autopatch, rerun, latticeVars, infererVars,
                   driftVars, toolVars >>

\* for file_path in iter_json_files(...): files_scanned += 1; read; file_events = []
NextFile ==
    /\ pc = "file" /\ file_idx < Len(files)
    /\ file_idx' = file_idx + 1
    /\ files_scanned' = files_scanned + 1
    /\ file_events' = << >>
    /\ sample_idx' = 0
    /\ pc' = "sample"
    /\ UNCHANGED << monitorFrame, expected_root, cur_observed, drifts, report,
                    prev_root, sample_events, hit_files, cliVars >>

\* for sample in _iter_samples(payload): observed = infer_type(sample);
\* if expected_root is None: expected_root = observed; continue
NextSample ==
    /\ pc = "sample" /\ sample_idx < Len(_iter_samples(files[file_idx]))
    /\ sample_idx' = sample_idx + 1
    /\ \E obs \in infer_type(_iter_samples(files[file_idx])[sample_idx + 1]) :
          /\ cur_observed' = obs
          /\ IF expected_root = None
             THEN expected_root' = obs /\ pc' = "sample"
             ELSE expected_root' = expected_root /\ pc' = "detect"
    /\ UNCHANGED << monitorFrame, file_idx, file_events, drifts, files_scanned, report,
                    prev_root, sample_events, hit_files, cliVars >>

\* the autopatch join applied first, and detect_drift run against its result
DetectPatched ==
    /\ pc = "detect"
    /\ IF autopatch
       THEN expected_root' \in join_types(expected_root, cur_observed, strict_numbers)
       ELSE expected_root' = expected_root
    /\ sample_events' = detect_drift(expected_root', cur_observed, s_dollar)
    /\ file_events' = file_events \o sample_events'
    /\ prev_root' = expected_root
    /\ hit_files' = IF sample_events' # << >> THEN hit_files \cup {file_idx} ELSE hit_files
    /\ pc' = "patch"
    /\ UNCHANGED << monitorFrame, file_idx, sample_idx, cur_observed, drifts,
                    files_scanned, report, cliVars >>

\* file_events.extend(detect_drift(expected_root, observed, path="$"))
Detect ==
    /\ pc = "detect"
    /\ sample_events' = detect_drift(expected_root, cur_observed, s_dollar)
    /\ file_events' = file_events \o sample_events'
    /\ prev_root' = expected_root
    /\ hit_files' = IF sample_events' # << >> THEN hit_files \cup {file_idx} ELSE hit_files
    /\ pc' = "patch"
    /\ UNCHANGED << monitorFrame, expected_root, file_idx, sample_idx, cur_observed,
                    drifts, files_scanned, report, cliVars >>

\* if autopatch and file_events: expected_root = observed
PatchReplace ==
    /\ pc = "patch"
    /\ expected_root' = (IF autopatch /\ file_events # << >> THEN cur_observed
                          ELSE expected_root)
    /\ pc' = "sample"
    /\ UNCHANGED << monitorFrame, file_idx, sample_idx, cur_observed, file_events, drifts,
                    files_scanned, report, prev_root, sample_events, hit_files, cliVars >>

\* if autopatch and file_events: expected_root = join_types(expected_root, observed, ...)
Patch ==
    /\ pc = "patch"
    /\ IF autopatch /\ file_events # << >>
       THEN expected_root' \in join_types(expected_root, cur_observed, strict_numbers)
       ELSE expected_root' = expected_root
    /\ pc' = "sample"
    /\ UNCHANGED << monitorFrame, file_idx, sample_idx, cur_observed, file_events, drifts,
                    files_scanned, report, prev_root, sample_events, hit_files, cliVars >>

\* after the file's samples: if file_events: drifts.append(FileDrift(...))
EndFile ==
    /\ pc = "sample" /\ sample_idx = Len(_iter_samples(files[file_idx]))
    /\ drifts' = IF file_events # << >>
                 THEN Append(drifts, FileDrift(file_idx, file_events))
                 ELSE drifts
    /\ pc' = "file"
    /\ UNCHANGED << monitorFrame, expected_root, file_idx, sample_idx, cur_observed,
                    file_events, files_scanned, report, prev_root, sample_events,
                    hit_files, cliVars >>

\* report = MonitorReport(...); return expected_root, report
Return ==
    /\ pc = "file" /\ file_idx = Len(files)
    /\ report' = MonitorReport(files_scanned, Len(drifts), drifts)
    /\ pc' = "done"
    /\ UNCHANGED << monitorFrame, expected_root, file_idx, sample_idx, cur_observed,
                    file_events, drifts, files_scanned, prev_root, sample_events,
                    hit_files, cliVars >>

\* monitor_directory_once called again over the same files, with autopatch on
\* and the root the first run returned as expected_root
Rerun ==
    /\ pc = "done" /\ autopatch /\ ~rerun
    /\ rerun' = TRUE
    /\ file_idx' = 0 /\ sample_idx' = 0 /\ pc' = "file" /\ cur_observed' = None
    /\ file_events' = << >> /\ drifts' = << >> /\ files_scanned' = 0
    /\ report' = None /\ prev_root' = None /\ sample_events' = << >>
    /\ hit_files' = {}
    /\ UNCHANGED << strict_numbers, files, autopatch, expected_root, latticeVars,
                    infererVars, driftVars, toolVars, cliVars >>

-----------------------------------------------------------------------------
(* cli.py: the end of the monitor command *)

EXIT_OK == 0
EXIT_MONITOR_WARNING == 20
EXIT_MONITOR_BREAKING == 21

_monitor_report_payload(monitor_report) ==
    LET all == Concat([i \in 1..Len(monitor_report.drifts) |-> monitor_report.drifts[i].events])
        breaking_events ==
            Cardinality({i \in 1..Len(all) : drift_severity(all[i]) = "breaking"})
        warning_events ==
            Cardinality({i \in 1..Len(all) : drift_severity(all[i]) # "breaking"})
    IN [summary |->
           [files_scanned |-> monitor_report.files_scanned,
            files_with_drift |-> monitor_report.files_with_drift,
            total_events |-> warning_events + breaking_events,
            breaking_events |-> breaking_events,
            warning_events |-> warning_events],
        files |->
           [i \in 1..Len(monitor_report.drifts) |->
               [path |-> monitor_report.drifts[i].path,
                events |->
                    [k \in 1..Len(monitor_report.drifts[i].events) |->
                        LET event == monitor_report.drifts[i].events[k]
                        IN [path |-> event.path, expected |-> event.expected,
                            observed |-> event.observed, kind |-> event.kind,
                            severity |-> drift_severity(event)]]]]]

\* _monitor_exit_code with the warning test of "any" made before the breaking test
_monitor_exit_code_warning_first(choice, report_payload) ==
    IF choice = "none" THEN EXIT_OK
    ELSE IF choice = "breaking"
    THEN IF report_payload.summary.breaking_events > 0 THEN EXIT_MONITOR_BREAKING ELSE EXIT_OK
    ELSE IF report_payload.summary.warning_events > 0 THEN EXIT_MONITOR_WARNING
    ELSE IF report_payload.summary.breaking_events > 0 THEN EXIT_MONITOR_BREAKING
    ELSE EXIT_OK

_monitor_exit_code(choice, report_payload) ==
    IF choice = "none" THEN EXIT_OK
    ELSE IF choice = "breaking"
    THEN IF report_payload.summary.breaking_events > 0 THEN EXIT_MONITOR_BREAKING ELSE EXIT_OK
    ELSE IF choice = "any"
    THEN IF report_payload.summary.breaking_events > 0 THEN EXIT_MONITOR_BREAKING
         ELSE IF report_payload.summary.warning_events > 0 THEN EXIT_MONITOR_WARNING
         ELSE EXIT_OK
    ELSE [kind |-> "ValueError"]

\* the choices of --fail-on
FailOnChoices == {"none", "breaking", "any"}

\* _cmd_monitor after monitor_directory_once has returned:
\* payload = _monitor_report_payload(report); return _monitor_exit_code(args.fail_on, payload)
\* (args.fail_on is read here only, so it is drawn here)
MonitorExit ==
    /\ pc = "done"
    /\ fail_on' \in FailOnChoices
    /\ monitor_payload' = _monitor_report_payload(report)
    /\ exit_code' = _monitor_exit_code(fail_on', monitor_payload')
    /\ pc' = "exit"
    /\ UNCHANGED << monitorFrame, expected_root, file_idx, sample_idx, cur_observed,
                    file_events, drifts, files_scanned, report, prev_root, sample_events,
                    hit_files >>

NextMonitor ==
    NextFile \/ NextSample \/ Detect \/ Patch \/ EndFile \/ Return \/ Rerun \/ MonitorExit

SpecMonitor == InitMonitor /\ [][NextMonitor]_vars

\* C7: detect_drift for a sample reads the expected root as it stands and
\* leaves it alone; the root is reassigned only in the autopatch step that
\* follows, when the sample's events are those computed against the root
\* as it still is, and the next sample is taken only after that step.
C7_DetectBeforePatch ==
    [][/\ (pc = "detect" =>
              /\ expected_root' = expected_root
              /\ sample_events' = detect_drift(expected_root, cur_observed, s_dollar)
              /\ pc' = "patch")
       /\ ((expected_root # None /\ expected_root' # expected_root) =>
              /\ pc = "patch"
              /\ sample_events = detect_drift(expected_root, cur_observed, s_dollar)
              /\ pc' = "sample")]_vars

\* a sample's events were computed against prev_root, and the root was joined after
C7_Witness ==
    /\ pc = "sample" /\ prev_root # None /\ expected_root # prev_root
    /\ sample_events # << >>
    /\ sample_events = detect_drift(prev_root, cur_observed, s_dollar)

IsObjectWith(node, name, type_node) ==
    /\ node.kind = "Object"
    /\ name \in DOMAIN node.fields
    /\ node.fields[name].type_node = type_node

C10_FloatAcceptsInt ==
    pc = "patch" =>
        /\ (expected_root = FLOAT /\ cur_observed = INT) => sample_events = << >>
        /\ (expected_root = INT /\ cur_observed = FLOAT)
              => KindAt(sample_events) = << << "type_mismatch", s_dollar >> >>
        /\ (expected_root = ArrayType(FLOAT) /\ cur_observed = ArrayType(INT))
              => sample_events = << >>
        /\ (expected_root = ArrayType(INT) /\ cur_observed = ArrayType(FLOAT))
              => KindAt(sample_events) = << << "type_mismatch", s_dollar \o s_brackets >> >>
        /\ (IsObjectWith(expected_root, "id", FLOAT) /\ IsObjectWith(cur_observed, "id", INT)
               /\ DOMAIN expected_root.fields = {"id"} /\ DOMAIN cur_observed.fields = {"id"})
              => sample_events = << >>
        /\ (IsObjectWith(expected_root, "id", INT) /\ IsObjectWith(cur_observed, "id", FLOAT)
               /\ DOMAIN expected_root.fields = {"id"} /\ DOMAIN cur_observed.fields = {"id"})
              => KindAt(sample_events)
                   = << << "type_mismatch", s_dollar \o s_dot \o Chars("id") >> >>

\* strict_numbers set, Float expected in a field and Int observed: no event
C10_Witness ==
    /\ pc = "patch" /\ strict_numbers
    /\ IsObjectWith(expected_root, "id", FLOAT) /\ IsObjectWith(cur_observed, "id", INT)
    /\ sample_events = << >>

\* the events of the report, of all files
ReportedEvents == Concat([i \in 1..Len(report.drifts) |-> report.drifts[i].events])

\* C20: the exit code is decided by --fail-on and the event counts: 0 with
\* none; with breaking, 21 when there is a breaking event and 0 otherwise; with
\* any, 21 when there is a breaking event, else 20 when there is a warning
\* event, else 0; and total_events is breaking_events plus warning_events.
C20_MonitorExitCode ==
    pc = "exit" =>
        LET breaking == Cardinality({i \in 1..Len(ReportedEvents) :
                            ReportedEvents[i].kind
                              \in {"type_mismatch", "missing_required_field"}})
            warning == Cardinality({i \in 1..Len(ReportedEvents) :
                           ReportedEvents[i].kind = "new_field"})
            summary == monitor_payload.summary
        IN /\ summary.breaking_events = breaking
           /\ summary.warning_events = warning
           /\ summary.total_events = summary.breaking_events + summary.warning_events
           /\ summary.total_events = Len(ReportedEvents)
           /\ fail_on = "none" => exit_code = 0
           /\ fail_on = "breaking" => exit_code = (IF breaking > 0 THEN 21 ELSE 0)
           /\ fail_on = "any" =>
                  exit_code = (IF breaking > 0 THEN 21 ELSE IF warning > 0 THEN 20 ELSE 0)

\* --fail-on any, with breaking and warning events: 21
C20_Witness ==
    /\ pc = "exit" /\ fail_on = "any" /\ exit_code = 21
    /\ monitor_payload.summary.breaking_events > 0
    /\ monitor_payload.summary.warning_events > 0

\* C28: with autopatch on, a sample for which detect_drift returned no events
\* leaves the expected root as it was, wherever the sample sits in its file.
C28_QuietSampleKeepsRoot ==
    [][(pc = "patch" /\ autopatch /\ sample_events = << >>)
          => expected_root' = expected_root]_vars

\* C29: the root an autopatch run returns accepts every file of that run: a
\* second autopatch run over the same files, given that root as expected_root,
\* reports files_with_drift = 0.
C29_AutopatchFixpoint ==
    (rerun /\ pc \in {"done", "exit"}) => report.files_with_drift = 0

-----------------------------------------------------------------------------
(* Python source as ast.parse returns it *)

Name(id) == [node |-> "Name", id |-> id]
Attribute(value, attr) == [node |-> "Attribute", value |-> value, attr |-> attr]
Subscript(value, slice) == [node |-> "Subscript", value |-> value, slice |-> slice]
\* left | right
BinOp(l, r) == [node |-> "BinOp", left |-> l, right |-> r]
Tuple(elts) == [node |-> "Tuple", elts |-> elts]
\* value: "None" or "Ellipsis"
Constant(value) == [node |-> "Constant", value |-> value]
Call(func, args) == [node |-> "Call", func |-> func, args |-> args]
AnnAssign(target, annotation, value) ==
    [node |-> "AnnAssign", target |-> target, annotation |-> annotation, value |-> value]
Pass == [node |-> "Pass"]
ClassDef(name, bases, body) ==
    [node |-> "ClassDef", name |-> name, bases |-> bases, body |-> body]

RECURSIVE ast_unparse(_)
ast_unparse(expr) ==
    CASE expr.node = "Name" -> Chars(expr.id)
      [] expr.node = "Constant" -> Chars(expr.value)
      [] expr.node = "Attribute" -> ast_unparse(expr.value) \o s_dot \o Chars(expr.attr)
      [] expr.node = "Subscript" ->
             ast_unparse(expr.value) \o s_open_bracket
               \o (IF expr.slice.node = "Tuple"
                   THEN Join(s_comma_space,
                             [i \in 1..Len(expr.slice.elts) |-> ast_unparse(expr.slice.elts[i])])
                   ELSE ast_unparse(expr.slice))
               \o s_close_bracket
      [] expr.node = "BinOp" -> ast_unparse(expr.left) \o s_bar \o ast_unparse(expr.right)

-----------------------------------------------------------------------------
(* diff/semantic.py *)

ModelField(annotation, is_required) == [annotation |-> annotation, required |-> is_required]

ModelSchema(classes) == [classes |-> classes]

DiffEntry(severity, class_name, field_name, message) ==
    [severity |-> severity, class_name |-> class_name, field_name |-> field_name,
     message |-> message]

\* str.replace(pattern, "")
RECURSIVE Remove(_, _)
Remove(text, pattern) ==
    IF Len(text) < Len(pattern) THEN text
    ELSE IF SubSeq(text, 1, Len(pattern)) = pattern
    THEN Remove(SubSeq(text, Len(pattern) + 1, Len(text)), pattern)
    ELSE << Head(text) >> \o Remove(Tail(text), pattern)

_normalize_annotation(annotation) == Remove(Remove(annotation, s_typing_dot), s_space)

\* the loop of _split_top_level_union from character i on
RECURSIVE SplitScan(_, _, _, _, _)
SplitScan(annotation, i, parts, buf, depth) ==
    IF i > Len(annotation)
    THEN IF buf # << >> THEN Append(parts, buf) ELSE parts
    ELSE LET ch == annotation[i]
             d == IF << ch >> = s_open_bracket THEN depth + 1
                  ELSE IF << ch >> = s_close_bracket THEN depth - 1
                  ELSE depth
         IN IF << ch >> = s_pipe /\ d = 0
            THEN SplitScan(annotation, i + 1, Append(parts, buf), << >>, d)
            ELSE SplitScan(annotation, i + 1, parts, Append(buf, ch), d)

_split_top_level_union(annotation) ==
    {part \in Range(SplitScan(annotation, 1, << >>, << >>, 0)) : part # << >>}

\* _classify_type_change that never reports a widening or a narrowing
_classify_type_change_blunt(old_annotation, new_annotation) ==
    IF _split_top_level_union(old_annotation) = _split_top_level_union(new_annotation)
    THEN "same" ELSE "changed"

_classify_type_change(old_annotation, new_annotation) ==
    LET old_set == _split_top_level_union(old_annotation)
        new_set == _split_top_level_union(new_annotation)
    IN IF old_set = new_set THEN "same"
       ELSE IF old_set \subseteq new_set THEN "widened"
       ELSE IF new_set \subseteq old_set THEN "narrowed"
       ELSE "changed"

_is_basemodel_subclass(class_node) ==
    \E i \in 1..Len(class_node.bases) :
        \/ class_node.bases[i].node = "Name" /\ class_node.bases[i].id = "BaseModel"
        \/ class_node.bases[i].node = "Attribute" /\ class_node.bases[i].attr = "BaseModel"

_is_field_required(statement) ==
    IF statement.value = None THEN TRUE
    ELSE IF statement.value.node = "Call"
              /\ statement.value.func.node = "Name" /\ statement.value.func.id = "Field"
    THEN IF statement.value.args # << >> /\ statement.value.args[1].node = "Constant"
         THEN statement.value.args[1].value = "Ellipsis"
         ELSE FALSE
    ELSE FALSE

\* the last of a set of positions: a later assignment to a dict key replaces
\* an earlier one
Last(positions) == CHOOSE i \in positions : \A j \in positions : j <= i

\* the fields dict parse_pydantic_models builds from one class body
ClassFields(class_node) ==
    LET IsField(statement) == statement.node = "AnnAssign" /\ statement.target.node = "Name"
        names == {class_node.body[i].target.id :
                     i \in {k \in 1..Len(class_node.body) : IsField(class_node.body[k])}}
    IN [name \in names |->
           LET Named(statement) == IsField(statement) /\ statement.target.id = name
               statement == class_node.body[Last({k \in 1..Len(class_node.body) : Named(class_node.body[k])})]
           IN ModelField(_normalize_annotation(ast_unparse(statement.annotation)),
                         _is_field_required(statement))]

\* parse_pydantic_models of a file whose ast.parse body is tree_body
parse_pydantic_models(tree_body) ==
    LET Kept(class_node) == class_node.node = "ClassDef" /\ _is_basemodel_subclass(class_node)
        names == {tree_body[i].name : i \in {k \in 1..Len(tree_body) : Kept(tree_body[k])}}
    IN ModelSchema([name \in names |->
                       LET Named(class_node) == Kept(class_node) /\ class_node.name = name
                       IN ClassFields(tree_body[Last({k \in 1..Len(tree_body) : Named(tree_body[k])})])])

\* the requiredness entry of a field both classes have, with the severities
\* of the two directions exchanged
RequirednessEntries_swapped(class_name, field_name, old_field, new_field) ==
    IF old_field.required /\ ~new_field.required
    THEN << DiffEntry("breaking", class_name, PyStr(field_name), s_required_to_optional) >>
    ELSE IF ~old_field.required /\ new_field.required
    THEN << DiffEntry("non-breaking", class_name, PyStr(field_name), s_optional_to_required) >>
    ELSE << >>

\* the requiredness entry of a field both classes have
RequirednessEntries(class_name, field_name, old_field, new_field) ==
    IF old_field.required /\ ~new_field.required
    THEN << DiffEntry("non-breaking", class_name, PyStr(field_name), s_required_to_optional) >>
    ELSE IF ~old_field.required /\ new_field.required
    THEN << DiffEntry("breaking", class_name, PyStr(field_name), s_optional_to_required) >>
    ELSE << >>

\* the type entry of a field both classes have
TypeEntries(class_name, field_name, old_field, new_field) ==
    LET kind == _classify_type_change(old_field.annotation, new_field.annotation)
    IN IF kind = "same" THEN << >>
       ELSE << DiffEntry(IF kind = "widened" THEN "non-breaking" ELSE "breaking",
                         class_name, PyStr(field_name),
                         s_Type \o Chars(kind) \o s_colon_space \o old_field.annotation
                           \o s_arrow \o new_field.annotation) >>

\* the body of the loop over sorted(old_classes & new_classes)
ClassEntries(class_name, old_fields, new_fields) ==
    LET removed == SortedNames(DOMAIN old_fields \ DOMAIN new_fields)
        added == SortedNames(DOMAIN new_fields \ DOMAIN old_fields)
        shared == SortedNames(DOMAIN old_fields \cap DOMAIN new_fields)
    IN [i \in 1..Len(removed) |->
           DiffEntry("breaking", class_name, PyStr(removed[i]), s_Field_removed)]
       \o [i \in 1..Len(added) |->
              DiffEntry(IF new_fields[added[i]].required THEN "breaking" ELSE "non-breaking",
                        class_name, PyStr(added[i]),
                        s_New \o Chars(IF new_fields[added[i]].required
                                       THEN "required" ELSE "optional") \o s_field)]
       \o Concat([i \in 1..Len(shared) |->
                     RequirednessEntries(class_name, shared[i],
                                         old_fields[shared[i]], new_fields[shared[i]])
                       \o TypeEntries(class_name, shared[i],
                                      old_fields[shared[i]], new_fields[shared[i]])])

\* semantic_diff that says nothing of the classes only the new schema has
semantic_diff_without_added(old_schema, new_schema) ==
    LET removed == SortedNames(DOMAIN old_schema.classes \ DOMAIN new_schema.classes)
        shared == SortedNames(DOMAIN old_schema.classes \cap DOMAIN new_schema.classes)
    IN [i \in 1..Len(removed) |-> DiffEntry("breaking", removed[i], None, s_Model_removed)]
       \o Concat([i \in 1..Len(shared) |->
                     ClassEntries(shared[i], old_schema.classes[shared[i]],
                                  new_schema.classes[shared[i]])])

semantic_diff(old_schema, new_schema) ==
    LET removed == SortedNames(DOMAIN old_schema.classes \ DOMAIN new_schema.classes)
        added == SortedNames(DOMAIN new_schema.classes \ DOMAIN old_schema.classes)
        shared == SortedNames(DOMAIN old_schema.classes \cap DOMAIN new_schema.classes)
    IN [i \in 1..Len(removed) |-> DiffEntry("breaking", removed[i], None, s_Model_removed)]
       \o [i \in 1..Len(added) |-> DiffEntry("non-breaking", added[i], None, s_Model_added)]
       \o Concat([i \in 1..Len(shared) |->
                     ClassEntries(shared[i], old_schema.classes[shared[i]],
                                  new_schema.classes[shared[i]])])

-----------------------------------------------------------------------------
(* diff_models applied to two model files *)

a_int == Name("int")
a_str == Name("str")
a_none == Constant("None")
\* list[int | str]
a_list == Subscript(Name("list"), BinOp(a_int, a_str))
\* dict[str, int | None]
a_dict == Subscript(Name("dict"), Tuple(<< a_str, BinOp(a_int, a_none) >>))

base_model == << Name("BaseModel") >>
\* RootModel[T]
root_model(T) == << Subscript(Name("RootModel"), T) >>

\* class User(BaseModel): id: int; nickname: str | None = None
src_old ==
    << ClassDef("User", base_model,
                << AnnAssign(Name("id"), a_int, None),
                   AnnAssign(Name("nickname"), BinOp(a_str, a_none), a_none) >>) >>

\* class User(BaseModel): id: int | str; nickname: str; email: str | None = None
src_new ==
    << ClassDef("User", base_model,
                << AnnAssign(Name("id"), BinOp(a_int, a_str), None),
                   AnnAssign(Name("nickname"), a_str, None),
                   AnnAssign(Name("email"), BinOp(a_str, a_none), a_none) >>) >>

\* class User(BaseModel): id: str | int; nickname: str | None = Field(...)
src_flip ==
    << ClassDef("User", base_model,
                << AnnAssign(Name("id"), BinOp(a_str, a_int), None),
                   AnnAssign(Name("nickname"), BinOp(a_str, a_none),
                             Call(Name("Field"), << Constant("Ellipsis") >>)) >>) >>

\* class User(BaseModel): id: list[int | str]; nickname: str | None = Field(None)
\* class Account(pydantic.BaseModel): id: typing.Optional[int]
src_list ==
    << ClassDef("User", base_model,
                << AnnAssign(Name("id"), a_list, None),
                   AnnAssign(Name("nickname"), BinOp(a_str, a_none),
                             Call(Name("Field"), << a_none >>)) >>),
       ClassDef("Account", << Attribute(Name("pydantic"), "BaseModel") >>,
                << AnnAssign(Name("id"),
                             Subscript(Attribute(Name("typing"), "Optional"), a_int),
                             None) >>) >>

\* class User(BaseModel): id: list[int | str] | None; email: str
\* class Account(BaseModel): id: Optional[int]; name: dict[str, int | None]
\* class Helper: id: int
src_list_none ==
    << ClassDef("User", base_model,
                << AnnAssign(Name("id"), BinOp(a_list, a_none), None),
                   AnnAssign(Name("email"), a_str, None) >>),
       ClassDef("Account", base_model,
                << AnnAssign(Name("id"), Subscript(Name("Optional"), a_int), None),
                   AnnAssign(Name("name"), a_dict, None) >>),
       ClassDef("Helper", << >>, << AnnAssign(Name("id"), a_int, None) >>) >>

\* class User(BaseModel): id: str
src_str == << ClassDef("User", base_model, << AnnAssign(Name("id"), a_str, None) >>) >>

\* class Payload(RootModel[int]): pass
src_root_int == << ClassDef("Payload", root_model(a_int), << Pass >>) >>

\* class Payload(RootModel[str]): pass
src_root_str == << ClassDef("Payload", root_model(a_str), << Pass >>) >>

ModelSources ==
    {src_old, src_new, src_flip, src_list, src_list_none, src_str, src_root_int, src_root_str}

InitDiff ==
    /\ strict_numbers = FALSE
    /\ old_file \in ModelSources /\ new_file \in ModelSources
    /\ old = None /\ new = None /\ entries = None
    /\ LatticeIdle /\ InfererIdle /\ DriftIdle /\ MonitorIdle /\ CodecIdle

diffFrame == << strict_numbers, latticeVars, infererVars, driftVars, monitorVars, codecVars,
                old_file, new_file >>

\* old_schema = parse_pydantic_models(old_path)
ParseOld ==
    /\ old = None
    /\ old' = parse_pydantic_models(old_file)
    /\ UNCHANGED << diffFrame, new, entries >>

\* new_schema = parse_pydantic_models(new_path)
ParseNew ==
    /\ old # None /\ new = None
    /\ new' = parse_pydantic_models(new_file)
    /\ UNCHANGED << diffFrame, old, entries >>

\* return semantic_diff(old_schema, new_schema)
SemanticDiff ==
    /\ new # None /\ entries = None
    /\ entries' = Returned(semantic_diff(old, new))
    /\ UNCHANGED << diffFrame, old, new >>

NextDiff == ParseOld \/ ParseNew \/ SemanticDiff

SpecDiff == InitDiff /\ [][NextDiff]_vars

StartsWith(text, prefix) ==
    Len(text) >= Len(prefix) /\ SubSeq(text, 1, Len(prefix)) = prefix

Contains(text, part) ==
    \E i \in 1..(Len(text) - Len(part) + 1) : SubSeq(text, i, i + Len(part) - 1) = part

\* the positions of the entries of a class, of one of its fields (field_name a
\* PyStr) or of the class itself (field_name None), whose message starts with prefix
EntriesAt(class_name, field_name, prefix) ==
    {i \in 1..Len(entries.value) :
        /\ entries.value[i].class_name = class_name
        /\ entries.value[i].field_name = field_name
        /\ StartsWith(entries.value[i].message, prefix)}

RECURSIVE TopLevelAlternatives(_)
\* the alternatives of an annotation a | b | ..., each as its normalized text
TopLevelAlternatives(annotation) ==
    IF annotation.node = "BinOp"
    THEN TopLevelAlternatives(annotation.left) \cup TopLevelAlternatives(annotation.right)
    ELSE {_normalize_annotation(ast_unparse(annotation))}

\* the annotation a file gives to a field of a class
SourceAnnotation(tree_body, class_name, field_name) ==
    LET IsClass(class_node) ==
            /\ class_node.node = "ClassDef" /\ class_node.name = class_name
            /\ _is_basemodel_subclass(class_node)
        body == tree_body[Last({k \in 1..Len(tree_body) : IsClass(tree_body[k])})].body
        IsField(statement) ==
            /\ statement.node = "AnnAssign" /\ statement.target.node = "Name"
            /\ statement.target.id = field_name
    IN body[Last({k \in 1..Len(body) : IsField(body[k])})].annotation

SharedClasses == DOMAIN old.classes \cap DOMAIN new.classes

SharedFields(class_name) == DOMAIN old.classes[class_name] \cap DOMAIN new.classes[class_name]

\* C13: for a field of a class both schemas have, the sets of top-level
\* alternatives of the two annotations decide the type entry: none when they are
\* equal, one non-breaking "Type widened" when old is a proper subset of new, one
\* breaking "Type narrowed" when new is a proper subset of old, one breaking
\* "Type changed" otherwise.
C13_TypeChangeClassified ==
    entries # None =>
        \A c \in SharedClasses : \A f \in SharedFields(c) :
            LET old_set == TopLevelAlternatives(SourceAnnotation(old_file, c, f))
                new_set == TopLevelAlternatives(SourceAnnotation(new_file, c, f))
                typed == EntriesAt(c, PyStr(f), s_Type)
                Only(severity, kind) ==
                    /\ Cardinality(typed) = 1
                    /\ \A i \in typed :
                           /\ entries.value[i].severity = severity
                           /\ StartsWith(entries.value[i].message, s_Type \o Chars(kind))
            IN IF old_set = new_set THEN typed = {}
               ELSE IF old_set \subseteq new_set THEN Only("non-breaking", "widened")
               ELSE IF new_set \subseteq old_set THEN Only("breaking", "narrowed")
               ELSE Only("breaking", "changed")

\* list[int | str] against list[int | str] | None: widened
C13_Witness ==
    /\ entries # None /\ old_file = src_list /\ new_file = src_list_none
    /\ \E i \in EntriesAt("User", PyStr("id"), s_Type \o Chars("widened")) :
           entries.value[i].severity = "non-breaking"

\* C14: a class deriving from RootModel[T] is parsed as a model with the one
\* field "__root__" of annotation T, so Payload(RootModel[int]) against
\* Payload(RootModel[str]) gives a breaking "Type changed" entry for "__root__".
C14_RootModelDiff ==
    /\ (old # None /\ old_file = src_root_int) =>
           /\ "Payload" \in DOMAIN old.classes
           /\ DOMAIN old.classes["Payload"] = {"__root__"}
           /\ old.classes["Payload"]["__root__"].annotation = Chars("int")
    /\ (entries # None /\ old_file = src_root_int /\ new_file = src_root_str) =>
           \E i \in 1..Len(entries.value) :
               /\ entries.value[i].field_name = PyStr("__root__")
               /\ entries.value[i].severity = "breaking"
               /\ Contains(entries.value[i].message, s_Type \o Chars("changed"))

\* C15: a class only in old gives exactly one breaking "Model removed"; a class
\* only in new exactly one non-breaking "Model added" and nothing else; in a
\* shared class a field only in old gives one breaking "Field removed" and a
\* field only in new one entry, breaking exactly when the new field is required.
C15_ExistenceChanges ==
    entries # None =>
        LET OfClass(c) == {i \in 1..Len(entries.value) : entries.value[i].class_name = c}
            OfField(c, f) == {i \in OfClass(c) : entries.value[i].field_name = PyStr(f)}
        IN /\ \A c \in DOMAIN old.classes \ DOMAIN new.classes :
                  /\ Cardinality(OfClass(c)) = 1
                  /\ \A i \in OfClass(c) :
                         entries.value[i] = DiffEntry("breaking", c, None, s_Model_removed)
           /\ \A c \in DOMAIN new.classes \ DOMAIN old.classes :
                  /\ Cardinality(OfClass(c)) = 1
                  /\ \A i \in OfClass(c) :
                         entries.value[i] = DiffEntry("non-breaking", c, None, s_Model_added)
           /\ \A c \in SharedClasses :
                  /\ \A f \in DOMAIN old.classes[c] \ DOMAIN new.classes[c] :
                         /\ Cardinality(OfField(c, f)) = 1
                         /\ \A i \in OfField(c, f) :
                                /\ entries.value[i].severity = "breaking"
                                /\ entries.value[i].message = s_Field_removed
                  /\ \A f \in DOMAIN new.classes[c] \ DOMAIN old.classes[c] :
                         /\ Cardinality(OfField(c, f)) = 1
                         /\ \A i \in OfField(c, f) :
                                entries.value[i].severity
                                  = (IF new.classes[c][f].required
                                     THEN "breaking" ELSE "non-breaking")

\* Account is removed and email is a new optional field
C15_Witness ==
    /\ entries # None /\ old_file = src_list /\ new_file = src_new
    /\ EntriesAt("Account", None, s_Model_removed) # {}
    /\ \E i \in EntriesAt("User", PyStr("email"), s_New) :
           entries.value[i].severity = "non-breaking"

\* C16: for a field of a class both schemas have, required to optional gives a
\* non-breaking entry, optional to required a breaking entry, unchanged
\* requiredness none; the entry comes before the type entry of the same field.
C16_RequirednessChanges ==
    entries # None =>
        \A c \in SharedClasses : \A f \in SharedFields(c) :
            LET was == old.classes[c][f].required
                is == new.classes[c][f].required
                changed == EntriesAt(c, PyStr(f), s_Field_changed)
                typed == EntriesAt(c, PyStr(f), s_Type)
            IN /\ was = is => changed = {}
               /\ was # is =>
                      /\ Cardinality(changed) = 1
                      /\ \A i \in changed :
                             /\ entries.value[i].severity
                                  = (IF was THEN "non-breaking" ELSE "breaking")
                             /\ entries.value[i].message
                                  = (IF was THEN s_required_to_optional
                                     ELSE s_optional_to_required)
                             /\ \A j \in typed : i < j

\* nickname: str | None = None becomes nickname: str: optional to required,
\* then the type entry
C16_Witness ==
    /\ entries # None /\ old_file = src_old /\ new_file = src_new
    /\ \E i \in EntriesAt("User", PyStr("nickname"), s_optional_to_required) :
           /\ entries.value[i].severity = "breaking"
           /\ i + 1 \in EntriesAt("User", PyStr("nickname"), s_Type \o Chars("narrowed"))

-----------------------------------------------------------------------------
(* state.py *)

RECURSIVE _type_to_data(_)
_type_to_data(node) ==
    IF node = ANY THEN [kind |-> "any"]
    ELSE IF node = NULL THEN [kind |-> "null"]
    ELSE IF node = BOOL THEN [kind |-> "bool"]
    ELSE IF node = INT THEN [kind |-> "int"]
    ELSE IF node = FLOAT THEN [kind |-> "float"]
    ELSE IF node = STR THEN [kind |-> "str"]
    ELSE IF node = DATETIME THEN [kind |-> "datetime"]
    ELSE IF node.kind = "Array"
    THEN [kind |-> "array", item_type |-> _type_to_data(node.item_type)]
    ELSE IF node.kind = "Object"
    THEN LET names == SortedNames(DOMAIN node.fields)
         IN [kind |-> "object",
             sample_count |-> node.sample_count,
             fields |-> [i \in 1..Len(names) |->
                            [name |-> names[i],
                             type |-> _type_to_data(node.fields[names[i]].type_node),
                             required_count |-> node.fields[names[i]].required_count,
                             sample_count |-> node.fields[names[i]].sample_count,
                             examples |-> node.fields[names[i]].examples]]]
    ELSE IF node.kind = "Union"
    THEN [kind |-> "union",
          options |-> [i \in 1..Len(node.options) |-> _type_to_data(node.options[i])]]
    ELSE [kind |-> "TypeError"]

RECURSIVE _type_from_data(_)

\* _type_from_data that leaves the examples of a field out
_type_from_data_without_examples(data) ==
    IF data.kind = "object"
    THEN LET names == {data.fields[i].name : i \in 1..Len(data.fields)}
             Named(name) ==
                 LET Is(entry) == entry.name = name
                 IN data.fields[Last({k \in 1..Len(data.fields) : Is(data.fields[k])})]
         IN ObjectType([name \in names |->
                           FieldInfo(_type_from_data(Named(name).type),
                                     Named(name).required_count,
                                     Named(name).sample_count,
                                     << >>)],
                       data.sample_count)
    ELSE IF data.kind = "array" THEN ArrayType(_type_from_data(data.item_type))
    ELSE IF data.kind = "union"
    THEN UnionType([i \in 1..Len(data.options) |-> _type_from_data(data.options[i])])
    ELSE CHOOSE scalar \in {ANY, NULL, BOOL, INT, FLOAT, STR, DATETIME} :
             _type_to_data(scalar) = data

\* a ValueError raised by a nested call leaves the enclosing calls too: the
\* result is then the error, not a type built around it
_type_from_data(data) ==
    IF data.kind = "any" THEN ANY
    ELSE IF data.kind = "null" THEN NULL
    ELSE IF data.kind = "bool" THEN BOOL
    ELSE IF data.kind = "int" THEN INT
    ELSE IF data.kind = "float" THEN FLOAT
    ELSE IF data.kind = "str" THEN STR
    ELSE IF data.kind = "datetime" THEN DATETIME
    ELSE IF data.kind = "array"
    THEN LET item == _type_from_data(data.item_type)
         IN IF item.kind = "ValueError" THEN item ELSE ArrayType(item)
    ELSE IF data.kind = "object"
    THEN LET names == {data.fields[i].name : i \in 1..Len(data.fields)}
             \* fields[entry["name"]] = ...: the last entry of a name stays
             Named(name) ==
                 LET Is(entry) == entry.name = name
                 IN data.fields[Last({k \in 1..Len(data.fields) : Is(data.fields[k])})]
             types == [i \in 1..Len(data.fields) |-> _type_from_data(data.fields[i].type)]
         IN IF \E i \in 1..Len(data.fields) : types[i].kind = "ValueError"
            THEN [kind |-> "ValueError"]
            ELSE ObjectType([name \in names |->
                                FieldInfo(_type_from_data(Named(name).type),
                                          Named(name).required_count,
                                          Named(name).sample_count,
                                          Named(name).examples)],
                            data.sample_count)
    ELSE IF data.kind = "union"
    THEN LET options == [i \in 1..Len(data.options) |-> _type_from_data(data.options[i])]
         IN IF \E i \in 1..Len(options) : options[i].kind = "ValueError"
            THEN [kind |-> "ValueError"]
            ELSE UnionType(options)
    ELSE [kind |-> "ValueError"]

schema_state_payload(node) == [schema_version |-> 1, root |-> _type_to_data(node)]

root_from_schema_state_payload(state) ==
    IF state.schema_version # 1 THEN [kind |-> "ValueError"]
    ELSE _type_from_data(state.root)

-----------------------------------------------------------------------------
(* json_schema.py *)

_JSON_SCHEMA_URI == "https://json-schema.org/draft/2020-12/schema"

\* title: the default of to_json_schema's title parameter
DefaultTitle == "PydanticforgeSchema"

\* {}
EmptyDict == [k \in {} |-> TRUE]

RECURSIVE _to_json_schema(_)

\* _to_json_schema that lists every field of an object as required
_to_json_schema_all_required(node) ==
    IF node.kind = "Object"
    THEN LET names == SortedNames(DOMAIN node.fields)
             base == [type |-> "object",
                      properties |-> [name \in DOMAIN node.fields |->
                                         _to_json_schema(node.fields[name].type_node)],
                      additionalProperties |-> TRUE]
         IN IF names # << >>
            THEN [key \in DOMAIN base \cup {"required"} |->
                     IF key = "required" THEN names ELSE base[key]]
            ELSE base
    ELSE IF node.kind = "Array"
    THEN [type |-> "array", items |-> _to_json_schema(node.item_type)]
    ELSE IF node.kind = "Union"
    THEN [anyOf |-> [i \in 1..Len(node.options) |-> _to_json_schema(node.options[i])]]
    ELSE IF node = ANY THEN EmptyDict
    ELSE IF node = NULL THEN [type |-> "null"]
    ELSE IF node = BOOL THEN [type |-> "boolean"]
    ELSE IF node = INT THEN [type |-> "integer"]
    ELSE IF node = FLOAT THEN [type |-> "number"]
    ELSE IF node = STR THEN [type |-> "string"]
    ELSE [type |-> "string", format |-> "date-time"]

_to_json_schema(node) ==
    IF node = ANY THEN EmptyDict
    ELSE IF node = NULL THEN [type |-> "null"]
    ELSE IF node = BOOL THEN [type |-> "boolean"]
    ELSE IF node = INT THEN [type |-> "integer"]
    ELSE IF node = FLOAT THEN [type |-> "number"]
    ELSE IF node = STR THEN [type |-> "string"]
    ELSE IF node = DATETIME THEN [type |-> "string", format |-> "date-time"]
    ELSE IF node.kind = "Array"
    THEN [type |-> "array", items |-> _to_json_schema(node.item_type)]
    ELSE IF node.kind = "Object"
    THEN LET IsRequired(name) == required(node.fields[name])
             required_names == SelectSeq(SortedNames(DOMAIN node.fields), IsRequired)
             base == [type |-> "object",
                      properties |-> [name \in DOMAIN node.fields |->
                                         _to_json_schema(node.fields[name].type_node)],
                      additionalProperties |-> TRUE]
         IN IF required_names # << >>
            THEN [key \in DOMAIN base \cup {"required"} |->
                     IF key = "required" THEN required_names ELSE base[key]]
            ELSE base
    ELSE IF node.kind = "Union"
    THEN [anyOf |-> [i \in 1..Len(node.options) |-> _to_json_schema(node.options[i])]]
    ELSE [kind |-> "TypeError"]

to_json_schema(node, title) ==
    LET body == _to_json_schema(node)
    IN [key \in {"$schema", "title"} \cup DOMAIN body |->
           IF key \in DOMAIN body THEN body[key]
           ELSE IF key = "$schema" THEN _JSON_SCHEMA_URI
           ELSE title]

\* _dedupe_union: the outcomes (sorted(deduped, key=type_sort_key) keeps tied
\* options in the set's iteration order)
_dedupe_union(options) ==
    IF options = << >> THEN {ANY}
    ELSE IF Cardinality(Range(options)) = 1 THEN Range(options)
    ELSE {UnionType(o) : o \in SortedByKey(Range(options))}

RECURSIVE SeqChoices(_)
\* the lists that take their i-th element from the i-th set
SeqChoices(sets) ==
    IF sets = << >> THEN {<< >>}
    ELSE {<< h >> \o t : h \in Head(sets), t \in SeqChoices(Tail(sets))}

\* isinstance(value, dict): a JSON object is the function from its keys, any
\* other JSON value is one of the Python values above
IsDict(value) == "py" \notin DOMAIN value

\* _from_json_schema: the outcomes, for a schema whose "type", when it has one,
\* is a str
RECURSIVE _from_json_schema(_)
_from_json_schema(json) ==
    LET Has(key) == key \in DOMAIN json
        IsType(name) == Has("type") /\ json["type"] = name
        Dicts(list) == SelectSeq(list, IsDict)
    IN IF ~IsDict(json) THEN {ANY}
       ELSE IF Has("anyOf")
       THEN UNION {_dedupe_union(options) :
                      options \in SeqChoices([i \in 1..Len(Dicts(json["anyOf"])) |->
                                                 _from_json_schema(Dicts(json["anyOf"])[i])])}
       ELSE IF Has("oneOf")
       THEN UNION {_dedupe_union(options) :
                      options \in SeqChoices([i \in 1..Len(Dicts(json["oneOf"])) |->
                                                 _from_json_schema(Dicts(json["oneOf"])[i])])}
       ELSE IF IsType("null") THEN {NULL}
       ELSE IF IsType("boolean") THEN {BOOL}
       ELSE IF IsType("integer") THEN {INT}
       ELSE IF IsType("number") THEN {FLOAT}
       ELSE IF IsType("string")
       THEN IF Has("format") /\ json["format"] = "date-time" THEN {DATETIME} ELSE {STR}
       ELSE IF IsType("array")
       THEN {ArrayType(t) :
                t \in _from_json_schema(IF Has("items") /\ IsDict(json["items"])
                                         THEN json["items"] ELSE EmptyDict)}
       ELSE IF IsType("object") \/ Has("properties")
       THEN LET properties == IF Has("properties") /\ IsDict(json["properties"])
                              THEN json["properties"] ELSE EmptyDict
                required_set == IF Has("required") THEN Range(json["required"]) ELSE {}
                names == DOMAIN properties
                choices == [name \in names |->
                              {FieldInfo(t, IF name \in required_set THEN 1 ELSE 0, 1, << >>)
                                 : t \in _from_json_schema(IF IsDict(properties[name])
                                                           THEN properties[name]
                                                           ELSE EmptyDict)}]
                fields == {m \in [names -> UNION {choices[name] : name \in names}] :
                              \A name \in names : m[name] \in choices[name]}
            IN {ObjectType(m, 1) : m \in fields}
       ELSE {ANY}

from_json_schema(json) == _from_json_schema(json)

\* load_json_schema, from the parsed file on: the outcomes
load_json_schema(json) ==
    IF ~IsDict(json) THEN {[kind |-> "ValueError"]} ELSE from_json_schema(json)

-----------------------------------------------------------------------------
(* A root saved to the state file and loaded again, exported as JSON Schema *)
(* and imported again                                                       *)

CodecSamples ==
    {v_int, v_float, v_date, v_mixed_list, v_obj_list, v_empty_obj, v_id1, v_id_str,
     v_id_name, v_nested}

InitCodec ==
    /\ strict_numbers \in BOOLEAN
    /\ state_root \in Inferred(CodecSamples)
    /\ state_payload = None /\ loaded = None /\ schema = None /\ imported = None
    /\ LatticeIdle /\ InfererIdle /\ DriftIdle /\ MonitorIdle /\ DiffIdle

codecFrame == << strict_numbers, latticeVars, infererVars, driftVars, monitorVars, diffVars >>

\* one more sample joined into the root
ObserveRoot ==
    /\ \E v \in CodecSamples : \E j \in observe(state_root, v, strict_numbers) :
          Weight(j) <= MaxWeight + 2 /\ state_root' = j
    /\ state_payload' = None /\ loaded' = None /\ schema' = None /\ imported' = None
    /\ UNCHANGED codecFrame

\* save_schema_state: the file holds schema_state_payload(root) as JSON (dicts
\* with str keys, lists, ints and strs, which json.loads gives back as written)
SaveState ==
    /\ state_payload = None
    /\ state_payload' = schema_state_payload(state_root)
    /\ UNCHANGED << codecFrame, state_root, loaded, schema, imported >>

\* load_schema_state
LoadState ==
    /\ state_payload # None /\ loaded = None
    /\ loaded' = root_from_schema_state_payload(state_payload)
    /\ UNCHANGED << codecFrame, state_root, state_payload, schema, imported >>

\* save_json_schema
ExportSchema ==
    /\ loaded # None /\ schema = None
    /\ schema' = to_json_schema(state_root, DefaultTitle)
    /\ UNCHANGED << codecFrame, state_root, state_payload, loaded, imported >>

\* load_json_schema
ImportSchema ==
    /\ schema # None /\ imported = None
    /\ imported' \in load_json_schema(schema)
    /\ UNCHANGED << codecFrame, state_root, state_payload, loaded, schema >>

NextCodec == ObserveRoot \/ SaveState \/ LoadState \/ ExportSchema \/ ImportSchema

SpecCodec == InitCodec /\ [][NextCodec]_vars

\* C17: the state payload of a root, read back, is the root: nested unions,
\* arrays of objects, optional fields, counts and examples included.
C17_StateRoundTrip ==
    /\ root_from_schema_state_payload(schema_state_payload(state_root)) = state_root
    /\ loaded # None => loaded = state_root

\* id is a Union, name is optional with its example, and the root came back
C17_Witness ==
    /\ loaded # None /\ loaded = state_root
    /\ state_root.kind = "Object" /\ state_root.sample_count = 2
    /\ DOMAIN state_root.fields = {"id", "name"}
    /\ state_root.fields["id"].type_node.kind = "Union"
    /\ ~required(state_root.fields["name"])
    /\ state_root.fields["name"].examples # << >>

RECURSIVE Shapes(_)
\* the field names and the requiredness of a type: of each alternative of a
\* Union, of the items of an array, and of each field of an object
Shapes(node) ==
    CASE node.kind = "Union" -> UNION {Shapes(node.options[i]) : i \in 1..Len(node.options)}
      [] node.kind = "Array" -> {[shape |-> "array", item |-> Shapes(node.item_type)]}
      [] node.kind = "Object" ->
             {[shape |-> "object",
               fields |-> [name \in DOMAIN node.fields |->
                              [required |-> required(node.fields[name]),
                               type |-> Shapes(node.fields[name].type_node)]]]}
      [] OTHER -> {[shape |-> "scalar"]}

\* C18: the JSON Schema of an object root, imported, is an object with the
\* field names of the root, each required exactly when it is in the root, at
\* the root and in nested objects.
C18_JsonSchemaRoundTrip ==
    (imported # None /\ state_root.kind = "Object") =>
        /\ imported.kind = "Object"
        /\ DOMAIN imported.fields = DOMAIN state_root.fields
        /\ \A name \in DOMAIN state_root.fields :
               required(imported.fields[name]) <=> required(state_root.fields[name])
        /\ Shapes(imported) = Shapes(state_root)

\* a root with an optional field, exported and imported
C18_Witness ==
    /\ imported # None /\ state_root.kind = "Object"
    /\ DOMAIN imported.fields = {"id", "name"}
    /\ required(imported.fields["id"]) /\ ~required(imported.fields["name"])
    /\ state_root.sample_count = 2

-----------------------------------------------------------------------------
(* A state file and a JSON Schema file as found on disk, well-formed or not *)

\* the JSON of the state file
StateFiles ==
    {schema_state_payload(node) : node \in Inferred({v_id1, v_int_list, v_mixed_list})}
      \cup {[schema_version |-> 1, root |-> [kind |-> "mystery"]],
            [schema_version |-> 1,
             root |-> [kind |-> "array", item_type |-> [kind |-> "mystery"]]],
            [schema_version |-> 1,
             root |-> [kind |-> "union",
                       options |-> << [kind |-> "int"], [kind |-> "mystery"] >>]],
            [schema_version |-> 1,
             root |-> [kind |-> "object", sample_count |-> 1,
                       fields |-> << [name |-> "id", type |-> [kind |-> "mystery"],
                                      required_count |-> 1, sample_count |-> 1,
                                      examples |-> << >>] >>]]}

\* the JSON of the schema file
SchemaFiles ==
    {to_json_schema(node, DefaultTitle) : node \in Inferred({v_id1, v_int_list, v_mixed_list})}
      \cup {PyInt(5),
            [type |-> "object", properties |-> [id |-> PyInt(5)]],
            [type |-> "object", properties |-> PyStr("s")],
            [type |-> "array", items |-> PyStr("s")]}

InitLoad ==
    /\ strict_numbers \in BOOLEAN
    /\ state_root = None
    /\ state_payload \in StateFiles
    /\ schema \in SchemaFiles
    /\ loaded = None /\ imported = None
    /\ LatticeIdle /\ InfererIdle /\ DriftIdle /\ MonitorIdle /\ DiffIdle

NextLoad == LoadState \/ ImportSchema

SpecLoad == InitLoad /\ [][NextLoad]_vars

\* the type-kind tags _type_to_data writes
TypeKindTags ==
    {"any", "null", "bool", "int", "float", "str", "datetime", "array", "object", "union"}

RECURSIVE HasUnknownKind(_)
\* a type-kind tag of the persisted data, at any depth, is not one of the known
\* tags
HasUnknownKind(data) ==
    \/ data.kind \notin TypeKindTags
    \/ data.kind = "array" /\ HasUnknownKind(data.item_type)
    \/ data.kind = "object"
         /\ \E i \in 1..Len(data.fields) : HasUnknownKind(data.fields[i].type)
    \/ data.kind = "union"
         /\ \E i \in 1..Len(data.options) : HasUnknownKind(data.options[i])

RECURSIVE HasNonObjectFragment(_)
\* the schema, its "properties", one of its property schemas or its "items"
\* schema, at any depth, is not a JSON object
HasNonObjectFragment(json) ==
    \/ ~IsDict(json)
    \/ /\ IsDict(json) /\ "items" \in DOMAIN json
       /\ HasNonObjectFragment(json["items"])
    \/ /\ IsDict(json) /\ "properties" \in DOMAIN json
       /\ \/ ~IsDict(json["properties"])
          \/ \E name \in DOMAIN json["properties"] :
                 HasNonObjectFragment(json["properties"][name])

\* C26: malformed input never defaults silently: a state file with an unknown
\* type-kind tag, and a JSON Schema file with a fragment that is not an object
\* where one is required (the root, a property schema, an items schema), each
\* fail with an error instead of giving a type.
C26_MalformedInputFails ==
    /\ (loaded # None /\ HasUnknownKind(state_payload.root)) => loaded.kind = "ValueError"
    /\ (imported # None /\ HasNonObjectFragment(schema)) => imported.kind = "ValueError"

=============================================================================
